---- MODULE Spec2Model ----
(***************************************************************************)
(* The sugya extraction pipeline of ai/sugya_extractor.py: the fallback    *)
(* analyzer, the model-backed analyzer with its parser, persistence into   *)
(* the graph store, and the single-tractate and all-tractates runs.        *)
(*                                                                         *)
(* A Python str is a sequence of characters (one-character strings; a      *)
(* Hebrew letter is written by its name).  None is the value None_.  A     *)
(* dict is a function whose DOMAIN is its key set.  Values the code only   *)
(* copies and compares (node types, speakers, the theme) are plain strings.*)
(***************************************************************************)
EXTENDS Integers, Sequences, FiniteSets, TLC

(* ------------------------------------------------------------------ *)
(* Bounds of the model                                                 *)
(* ------------------------------------------------------------------ *)

\* number of freely chosen lines at the head of an analysed text
MaxPrefix == 2
\* number of repetitions of the filler line after them
MaxFill == 13
\* number of calls of save_sugya_to_database made one after the other
MaxCalls == 2
\* number of store failures (a session that cannot be opened, a query that raises)
MaxFaults == 1
\* a limit smaller than the number of texts of a tractate
SmallLimit == 1

(* ------------------------------------------------------------------ *)
(* Python values and str operations                                    *)
(* ------------------------------------------------------------------ *)

None_ == <<"None">>

\* dict.get(key, default)
Get(d, k, default) == IF k \in DOMAIN d THEN d[k] ELSE default

\* str.isspace of one character
IsSpace(c) == c \in {" ", "\t", "\n", "\r"}

RECURSIVE LStrip(_)
LStrip(s) == IF s # <<>> /\ IsSpace(Head(s)) THEN LStrip(Tail(s)) ELSE s

RECURSIVE RStrip(_)
RStrip(s) ==
    IF s # <<>> /\ IsSpace(s[Len(s)]) THEN RStrip(SubSeq(s, 1, Len(s) - 1)) ELSE s

\* str.strip()
Strip(s) == RStrip(LStrip(s))

\* s[:n]
Prefix(s, n) == SubSeq(s, 1, IF Len(s) < n THEN Len(s) ELSE n)

\* sub in s
Contains(s, sub) ==
    \E i \in 0..(Len(s) - Len(sub)) : SubSeq(s, i + 1, i + Len(sub)) = sub

\* s.startswith(p)
StartsWith(s, p) == Len(p) <= Len(s) /\ SubSeq(s, 1, Len(p)) = p

\* s.split(sep) for a one-character separator
RECURSIVE Split(_, _)
Split(s, sep) ==
    LET at == {i \in 1..Len(s) : s[i] = sep}
    IN  IF at = {} THEN <<s>>
        ELSE LET i == CHOOSE j \in at : \A k \in at : j <= k
             IN  <<SubSeq(s, 1, i - 1)>> \o Split(SubSeq(s, i + 1, Len(s)), sep)

Digits == <<"0", "1", "2", "3", "4", "5", "6", "7", "8", "9">>

\* str(n) of a natural number
RECURSIVE DecStr(_)
DecStr(n) == IF n < 10 THEN <<Digits[n + 1]>> ELSE DecStr(n \div 10) \o <<Digits[(n % 10) + 1]>>

(* ------------------------------------------------------------------ *)
(* String literals of the source                                       *)
(* ------------------------------------------------------------------ *)

DiscussionOn == <<"D","i","s","c","u","s","s","i","o","n"," ","o","n"," ">>
TalmudicDiscussionFrom ==
    <<"T","a","l","m","u","d","i","c"," ","d","i","s","c","u","s","s","i","o","n"," ","f","r","o","m"," ">>
DiscussionTopic == <<"D","i","s","c","u","s","s","i","o","n"," ","t","o","p","i","c">>
ChallengeLabel ==
    <<"C","h","a","l","l","e","n","g","e"," ","t","o"," ","t","h","e"," ","s","t","a","t","e","m","e","n","t">>
ResolutionLabel ==
    <<"R","e","s","o","l","u","t","i","o","n"," ","o","f"," ","t","h","e"," ","c","h","a","l","l","e","n","g","e">>
ProofLabel ==
    <<"P","r","o","o","f"," ","f","r","o","m"," ","a","n","o","t","h","e","r"," ","s","o","u","r","c","e">>
FinalRulingLabel == <<"F","i","n","a","l"," ","r","u","l","i","n","g">>
Ellipsis == <<".", ".", ".">>

\* the interrogative, assertion and dispute markers of _simulate_ai_analysis
InterrogativeMarkers ==
    { <<"lamed","mem","he">>, <<"mem","alef","yod">>, <<"mem","nun","alef">>,
      <<"he","yod","kaf","yod">> }
AssertionMarkers ==
    { <<"alef","mem","resh">>, <<"tav","nun","final_nun">>, <<"tav","nun","yod","alef">> }
DisputeMarkers ==
    { <<"pe","lamed","vav","gimel","tav","alef">>, <<"mem","het","lamed","vav","qof","tav">> }

\* lines[:15]
MaxLines == 15
\* len(nodes) < 5
MinNodes == 5
\* line[:80] and len(line) > 80
LabelBudget == 80
\* line[:100] and lines[0][:100]
PreviewBudget == 100

(* ------------------------------------------------------------------ *)
(* _simulate_ai_analysis                                               *)
(* ------------------------------------------------------------------ *)

\* [line.strip() for line in parts if line.strip()]
RECURSIVE StrippedNonBlank(_)
StrippedNonBlank(parts) ==
    IF parts = <<>> THEN <<>>
    ELSE IF Strip(Head(parts)) # <<>>
         THEN <<Strip(Head(parts))>> \o StrippedNonBlank(Tail(parts))
    ELSE StrippedNonBlank(Tail(parts))

\* lines = [line.strip() for line in content.split('\n') if line.strip()]
ContentLines(content) == StrippedNonBlank(Split(content, "\n"))

\* the chain with the assertion markers tested before the question
NodeTypeAssertionFirst(i, line) ==
    IF i = 1 THEN "mishnah"
    ELSE IF \E w \in AssertionMarkers : Contains(line, w) THEN "statement"
    ELSE IF Contains(line, <<"?">>) \/ \E w \in InterrogativeMarkers : Contains(line, w)
         THEN "kasha"
    ELSE IF \E w \in DisputeMarkers : Contains(line, w) THEN "dispute"
    ELSE IF i % 2 = 0 THEN "question"
    ELSE "answer"

\* the chain with the parity test of its last branch inverted
NodeTypeParityInverted(i, line) ==
    IF i = 1 THEN "mishnah"
    ELSE IF Contains(line, <<"?">>) \/ \E w \in InterrogativeMarkers : Contains(line, w)
         THEN "kasha"
    ELSE IF \E w \in AssertionMarkers : Contains(line, w) THEN "statement"
    ELSE IF \E w \in DisputeMarkers : Contains(line, w) THEN "dispute"
    ELSE IF i % 2 = 1 THEN "question"
    ELSE "answer"

\* the if/elif chain that types line i
NodeType(i, line) ==
    IF i = 1 THEN "mishnah"
    ELSE IF Contains(line, <<"?">>) \/ \E w \in InterrogativeMarkers : Contains(line, w)
         THEN "kasha"
    ELSE IF \E w \in AssertionMarkers : Contains(line, w) THEN "statement"
    ELSE IF \E w \in DisputeMarkers : Contains(line, w) THEN "dispute"
    ELSE IF i % 2 = 0 THEN "question"
    ELSE "answer"

NodeSpeaker(i, line) ==
    IF i = 1 THEN "Mishnah"
    ELSE IF NodeType(i, line) = "dispute" THEN "Talmud"
    ELSE "Gemara"

\* label = line[:80].strip(); if len(line) > 80: label += '...'
NodeLabel(line) ==
    Strip(Prefix(line, LabelBudget)) \o (IF Len(line) > LabelBudget THEN Ellipsis ELSE <<>>)

\* the node appended for line i of the visited lines
LineNode(i, line) ==
    [ id |-> DecStr(i),
      type |-> NodeType(i, line),
      label |-> NodeLabel(line),
      speaker |-> NodeSpeaker(i, line),
      content_preview |-> Prefix(line, PreviewBudget),
      parent_id |-> IF i > 1 THEN DecStr(i - 1) ELSE None_ ]

GenericNode(id, type, label, parent) ==
    [ id |-> DecStr(id), type |-> type, label |-> label, speaker |-> "Gemara",
      content_preview |-> <<>>, parent_id |-> DecStr(parent) ]

\* the list `additional`
AdditionalNodes(base_count) ==
    << GenericNode(base_count + 1, "kasha", ChallengeLabel, base_count),
       GenericNode(base_count + 2, "terutz", ResolutionLabel, base_count + 1),
       GenericNode(base_count + 3, "proof", ProofLabel, base_count + 2),
       GenericNode(base_count + 4, "conclusion", FinalRulingLabel, base_count + 3) >>

\* if len(nodes) < 5: nodes.extend(additional)
PadNodes(nodes) ==
    IF Len(nodes) < MinNodes THEN nodes \o AdditionalNodes(Len(nodes)) ELSE nodes

\* the nodes built from the visited lines, before padding
DerivedNodes(content) ==
    LET lines == ContentLines(content)
        visited == Prefix(lines, MaxLines)
    IN  [i \in 1..Len(visited) |-> LineNode(i, visited[i])]

SimulateAiAnalysis(page_ref, content) ==
    LET lines == ContentLines(content)
    IN  [ ref |-> page_ref,
          title |-> DiscussionOn \o page_ref,
          summary |-> TalmudicDiscussionFrom \o page_ref,
          theme |-> "Halakhic discourse",
          main_question |->
              IF lines # <<>> THEN Prefix(lines[1], PreviewBudget) ELSE DiscussionTopic,
          dialectic_nodes |-> PadNodes(DerivedNodes(content)) ]

(* ------------------------------------------------------------------ *)
(* Exceptions: a call returns a value or raises                        *)
(* ------------------------------------------------------------------ *)

Returned(v) == [exc |-> "none", val |-> v]
Raised(e) == [exc |-> e, val |-> None_]
Pending == [exc |-> "pending", val |-> None_]

\* the exception classes a failing step raises here; all derive from Exception
ExceptionClasses ==
    {"TypeError", "JSONDecodeError", "APIConnectionError", "KeyError",
     "ServiceUnavailable", "Neo4jError", "HTTPException"}

\* a handler that names the decoder's error only
ExceptJsonDecodeErrorOnly(e) == e = "JSONDecodeError"

\* `except Exception`
ExceptException(e) == e \in ExceptionClasses

(* ------------------------------------------------------------------ *)
(* _parse_ai_response and _analyze_sugya_with_ai                       *)
(* ------------------------------------------------------------------ *)

\* the keys of the schema the prompt asks for
SchemaKeys == {"title", "summary", "theme", "main_question", "dialectic_nodes"}

\* a try block that indexes the decoded object (data['title'], ...) in place of
\* data.get: an object that lacks a key raises KeyError
ParseTryBlockIndexed(page_ref, response) ==
    CASE response.kind = "content_none" -> Raised("TypeError")
      [] response.kind = "no_json" -> Returned(None_)
      [] response.kind = "undecodable" -> Raised("JSONDecodeError")
      [] response.kind = "object" ->
            IF ~(SchemaKeys \subseteq DOMAIN response.data) THEN Raised("KeyError")
            ELSE Returned([ ref |-> page_ref,
                            title |-> response.data["title"],
                            summary |-> response.data["summary"],
                            theme |-> response.data["theme"],
                            main_question |-> response.data["main_question"],
                            dialectic_nodes |-> response.data["dialectic_nodes"] ])

\* the try block of _parse_ai_response: returns the dict, raises, or falls
\* out of the block (exc "none", val None_) when the regex finds no span
ParseTryBlock(page_ref, response) ==
    CASE response.kind = "content_none" -> Raised("TypeError")
      [] response.kind = "no_json" -> Returned(None_)
      [] response.kind = "undecodable" -> Raised("JSONDecodeError")
      [] response.kind = "object" ->
            Returned([ ref |-> page_ref,
                       title |-> Get(response.data, "title", DiscussionOn \o page_ref),
                       summary |-> Get(response.data, "summary", <<>>),
                       theme |-> Get(response.data, "theme", ""),
                       main_question |-> Get(response.data, "main_question", <<>>),
                       dialectic_nodes |-> Get(response.data, "dialectic_nodes", <<>>) ])

ParseAiResponse(page_ref, response) ==
    LET try == ParseTryBlock(page_ref, response)
    IN  IF try.exc # "none" /\ ~ExceptException(try.exc) THEN try
        ELSE IF try.exc = "none" /\ response.kind = "object" THEN try
        ELSE Returned(SimulateAiAnalysis(page_ref, <<>>))

\* the try block of _analyze_sugya_with_ai: the model call, then the parser
AnalyzeTryBlock(behaviour, page_ref, content) ==
    IF behaviour.kind = "raises" THEN Raised("APIConnectionError")
    ELSE ParseAiResponse(page_ref, behaviour)

AnalyzeSugyaWithAi(client, behaviour, page_ref, content) ==
    IF ~client THEN Returned(SimulateAiAnalysis(page_ref, content))
    ELSE LET try == AnalyzeTryBlock(behaviour, page_ref, content)
         IN  IF try.exc # "none" /\ ExceptException(try.exc)
             THEN Returned(SimulateAiAnalysis(page_ref, content))
             ELSE try

(* ------------------------------------------------------------------ *)
(* Inputs of the analyzer                                              *)
(* ------------------------------------------------------------------ *)

Berakhot == <<"B","e","r","a","k","h","o","t">>
Shabbat == <<"S","h","a","b","b","a","t">>
Eruvin == <<"E","r","u","v","i","n">>
Berakhot2a == Berakhot \o <<" ", "2", "a">>
Shabbat2a == Shabbat \o <<" ", "2", "a">>

LQuestion == <<"Q","u","e","s","t","i","o","n"," ","o","n","e","?">>
LStatement == <<"S","t","a","t","e","m","e","n","t"," ","o","n","e",".">>
LDispute == <<"D","i","s","p","u","t","e"," ","h","e","r","e",".">>
LHebAssert == <<"alef","mem","resh"," ","x">>
LHebAsk == <<"x"," ","mem","alef","yod">>
LHebDispute == <<"mem","het","lamed","vav","qof","tav">>
LHebAssertAsk == <<"tav","nun","yod","alef","?">>
LHebAssertDispute == <<"alef","mem","resh"," ","mem","het","lamed","vav","qof","tav">>
LBlank == <<" ">>
LPadded == <<" ","x"," ">>

LineSamples ==
    {LQuestion, LStatement, LHebAssert, LHebAsk, LHebDispute, LHebAssertAsk, LHebAssertDispute,
     LBlank, LPadded}
FillerLine == LDispute

\* the sequences of at most n sample lines
RECURSIVE LineSeqs(_)
LineSeqs(n) ==
    IF n = 0 THEN {<<>>}
    ELSE LET shorter == LineSeqs(n - 1)
         IN  shorter \cup {Append(q, l) : q \in {r \in shorter : Len(r) = n - 1}, l \in LineSamples}

\* the text made of the given lines, each ended by a newline
RECURSIVE JoinLines(_)
JoinLines(lines) ==
    IF lines = <<>> THEN <<>> ELSE Head(lines) \o <<"\n">> \o JoinLines(Tail(lines))

InputLines ==
    {q \o [k \in 1..f |-> FillerLine] : q \in LineSeqs(MaxPrefix), f \in 0..MaxFill}

\* a model reply that decodes to an object: a node list as the prompt asks for
ReplyNodes ==
    << [id |-> <<"1">>, type |-> "mishnah", label |-> <<"m">>, speaker |-> "Mishnah",
        content_preview |-> <<"t">>, parent_id |-> None_],
       [id |-> <<"2">>, type |-> "question", label |-> <<"q">>, speaker |-> "Gemara",
        content_preview |-> <<"t">>, parent_id |-> <<"1">>] >>

ReplyData ==
    { [title |-> <<"T">>, summary |-> <<"S">>, theme |-> "th", main_question |-> <<"Q">>,
       dialectic_nodes |-> ReplyNodes],
      [title |-> <<"T">>, summary |-> <<"S">>, dialectic_nodes |-> ReplyNodes],
      [summary |-> <<"S">>, theme |-> "th", main_question |-> <<"Q">>],
      [title |-> <<"T">>, summary |-> <<"S">>, theme |-> "th", main_question |-> <<"Q">>,
       dialectic_nodes |-> <<>>] }

\* what the model call can do
ModelBehaviours ==
    { [kind |-> "raises", data |-> <<>>], [kind |-> "content_none", data |-> <<>>],
      [kind |-> "no_json", data |-> <<>>], [kind |-> "undecodable", data |-> <<>>] }
    \cup { [kind |-> "object", data |-> d] : d \in ReplyData }

NotCalled == [kind |-> "not_called", data |-> <<>>]

(* ------------------------------------------------------------------ *)
(* Text ids: regular expressions and ordering                          *)
(* ------------------------------------------------------------------ *)

UpperLetters ==
    <<"A","B","C","D","E","F","G","H","I","J","K","L","M","N","O","P","Q","R","S","T","U","V",
      "W","X","Y","Z">>
LowerLetters ==
    <<"a","b","c","d","e","f","g","h","i","j","k","l","m","n","o","p","q","r","s","t","u","v",
      "w","x","y","z">>

\* the characters of ids in code point order (ORDER BY t.id)
CharOrder == <<" ", "-">> \o Digits \o <<":", "<", ">", "?">> \o UpperLetters \o LowerLetters

Rank(c) == CHOOSE i \in 1..Len(CharOrder) : CharOrder[i] = c

\* a < b as strings
StrLess(a, b) ==
    \E i \in 1..(Len(a) + 1) :
        /\ i <= Len(b)
        /\ \A k \in 1..(i - 1) : a[k] = b[k]
        /\ (i = Len(a) + 1 \/ Rank(a[i]) < Rank(b[i]))

\* ORDER BY over a set of strings
RECURSIVE SortStrings(_)
SortStrings(S) ==
    IF S = {} THEN <<>>
    ELSE LET least == CHOOSE x \in S : \A y \in S \ {x} : StrLess(x, y)
         IN  <<least>> \o SortStrings(S \ {least})

\* \d, [A-Za-z], [ab]
IsDigit(c) == \E i \in 1..Len(Digits) : Digits[i] = c
IsLetter(c) == \E i \in 1..Len(UpperLetters) : UpperLetters[i] = c \/ LowerLetters[i] = c
IsSide(c) == c \in {"a", "b"}

\* the end of the longest run of characters of one class that starts at i
DigitRunEnd(s, i) == CHOOSE e \in i..Len(s) :
    (\A k \in i..e : IsDigit(s[k])) /\ (e = Len(s) \/ ~IsDigit(s[e + 1]))
LetterRunEnd(s, i) == CHOOSE e \in i..Len(s) :
    (\A k \in i..e : IsLetter(s[k])) /\ (e = Len(s) \/ ~IsLetter(s[e + 1]))
SpaceRunEnd(s, i) == CHOOSE e \in i..Len(s) :
    (\A k \in i..e : IsSpace(s[k])) /\ (e = Len(s) \/ ~IsSpace(s[e + 1]))

\* \d+[ab] matches at position i
PageTokenAt(s, i) ==
    /\ i >= 1 /\ i <= Len(s) /\ IsDigit(s[i])
    /\ DigitRunEnd(s, i) < Len(s)
    /\ IsSide(s[DigitRunEnd(s, i) + 1])

\* re.search(r'(\d+[ab])', text_id) finds a match
HasPageToken(s) == \E i \in 1..Len(s) : PageTokenAt(s, i)

\* page_match.group(1): the leftmost match
PageToken(s) ==
    LET i == CHOOSE j \in 1..Len(s) : PageTokenAt(s, j) /\ \A k \in 1..(j - 1) : ~PageTokenAt(s, k)
    IN  SubSeq(s, i, DigitRunEnd(s, i) + 1)

\* ([A-Za-z]+)\s+\d+[ab] matches at position i
TractateAt(s, i) ==
    /\ IsLetter(s[i])
    /\ LetterRunEnd(s, i) < Len(s)
    /\ IsSpace(s[LetterRunEnd(s, i) + 1])
    /\ PageTokenAt(s, SpaceRunEnd(s, LetterRunEnd(s, i) + 1) + 1)

\* a tractate token without the default: the empty string when nothing matches
TractateTokenNoDefault(s) ==
    IF \E i \in 1..Len(s) : TractateAt(s, i)
    THEN LET i == CHOOSE j \in 1..Len(s) : TractateAt(s, j) /\ \A k \in 1..(j - 1) : ~TractateAt(s, k)
         IN  SubSeq(s, i, LetterRunEnd(s, i))
    ELSE <<>>

\* tractate_match.group(1) if tractate_match else "Unknown"
TractateToken(s) ==
    IF \E i \in 1..Len(s) : TractateAt(s, i)
    THEN LET i == CHOOSE j \in 1..Len(s) : TractateAt(s, j) /\ \A k \in 1..(j - 1) : ~TractateAt(s, k)
         IN  SubSeq(s, i, LetterRunEnd(s, i))
    ELSE <<"U","n","k","n","o","w","n">>

\* t.id =~ '.*\d+[ab]:.*'
MatchesPageColon(s) ==
    \E i \in 1..Len(s) :
        /\ PageTokenAt(s, i)
        /\ DigitRunEnd(s, i) + 2 <= Len(s)
        /\ s[DigitRunEnd(s, i) + 2] = ":"

\* re.sub(r'<[^>]+>', '', content)
RECURSIVE StripTags(_)
StripTags(s) ==
    LET opens == {i \in 1..Len(s) : s[i] = "<" /\ \E j \in (i + 2)..Len(s) :
                                        s[j] = ">" /\ \A k \in (i + 1)..(j - 1) : s[k] # ">"}
    IN  IF opens = {} THEN s
        ELSE LET i == CHOOSE x \in opens : \A y \in opens : x <= y
                 j == CHOOSE x \in (i + 2)..Len(s) : s[x] = ">" /\ \A k \in (i + 1)..(x - 1) : s[k] # ">"
             IN  SubSeq(s, 1, i - 1) \o StripTags(SubSeq(s, j + 1, Len(s)))

(* ------------------------------------------------------------------ *)
(* The graph store and the Cypher queries of the pipeline              *)
(*                                                                     *)
(* A graph G holds Sugya and DialecticNode records (each with its own  *)
(* identity nid, so that two records with equal properties are two     *)
(* records), edge records (each with its identity eid), the next free  *)
(* identity and the clock read by datetime().  A property that is not  *)
(* set is a key that is missing from the record.                       *)
(* ------------------------------------------------------------------ *)

EmptyGraph ==
    [ sugya |-> {}, dnode |-> {}, contains_text |-> {}, has_dialectic_node |-> {},
      leads_to |-> {}, next_id |-> 1, clock |-> 1 ]

\* SET of several properties on a record
SetProps(n, props) ==
    [k \in DOMAIN n \cup DOMAIN props |-> IF k \in DOMAIN props THEN props[k] ELSE n[k]]

\* CREATE (a)-[:R]->(b) in place of the MERGE: one new edge per pair of rows
RECURSIVE MergeEdgesAlwaysCreated(_, _, _)
MergeEdgesAlwaysCreated(edges, pairs, next) ==
    IF pairs = {} THEN [edges |-> edges, next |-> next]
    ELSE LET pr == CHOOSE x \in pairs : TRUE
         IN  MergeEdgesAlwaysCreated(edges \cup {[eid |-> next, src |-> pr[1], dst |-> pr[2]]},
                                     pairs \ {pr}, next + 1)

\* MERGE (a)-[:R]->(b) for every pair of rows: one new edge per pair that has none
RECURSIVE MergeEdges(_, _, _)
MergeEdges(edges, pairs, next) ==
    LET missing == {pr \in pairs : ~\E e \in edges : e.src = pr[1] /\ e.dst = pr[2]}
    IN  IF missing = {} THEN [edges |-> edges, next |-> next]
        ELSE LET pr == CHOOSE x \in missing : TRUE
             IN  MergeEdges(edges \cup {[eid |-> next, src |-> pr[1], dst |-> pr[2]]},
                            pairs \ {pr}, next + 1)

\* CREATE (s:Sugya {ref: $ref}) in place of the MERGE: a new record whatever exists
SugyaRowsAlwaysCreated(G, ref) ==
    [rows |-> {[nid |-> G.next_id, ref |-> ref]}, rest |-> G.sugya, next |-> G.next_id + 1]

\* MERGE (s:Sugya {ref: $ref}): the records matched, or the one created
SugyaRows(G, ref) ==
    LET matched == {n \in G.sugya : n.ref = ref}
    IN  IF matched # {}
        THEN [rows |-> matched, rest |-> G.sugya \ matched, next |-> G.next_id]
        ELSE [rows |-> {[nid |-> G.next_id, ref |-> ref]}, rest |-> G.sugya,
              next |-> G.next_id + 1]

\* the first query of save_sugya_to_database with an unconditional
\* SET s.created_at = datetime()
MergeSugyaRestamped(G, ref, title, summary, theme, main_question) ==
    LET m == SugyaRows(G, ref)
    IN  [G EXCEPT !.sugya = m.rest \cup
                     {SetProps(n, [ title |-> title, summary |-> summary, theme |-> theme,
                                    main_question |-> main_question,
                                    extraction_method |-> "ai_powered",
                                    updated_at |-> G.clock, created_at |-> G.clock ]) : n \in m.rows},
                  !.next_id = m.next,
                  !.clock = G.clock + 1]

\* a first query that replaces the structure: DETACH DELETE of the
\* DialecticNode records of the ref before the Sugya record is written
MergeSugyaPruning(G, ref, title, summary, theme, main_question) ==
    LET m == SugyaRows(G, ref)
        set(n) == SetProps(n, [ title |-> title, summary |-> summary, theme |-> theme,
                                main_question |-> main_question,
                                extraction_method |-> "ai_powered",
                                updated_at |-> G.clock ])
        stamp(n) == IF "created_at" \in DOMAIN n THEN n
                    ELSE SetProps(n, [created_at |-> G.clock])
        gone == {d.nid : d \in {x \in G.dnode : x.sugya_ref = ref}}
    IN  [G EXCEPT !.sugya = m.rest \cup {stamp(set(n)) : n \in m.rows},
                  !.dnode = {d \in G.dnode : d.nid \notin gone},
                  !.has_dialectic_node = {e \in G.has_dialectic_node : e.dst \notin gone},
                  !.leads_to = {e \in G.leads_to : e.src \notin gone /\ e.dst \notin gone},
                  !.next_id = m.next,
                  !.clock = G.clock + 1]

\* the first query of save_sugya_to_database
MergeSugya(G, ref, title, summary, theme, main_question) ==
    LET m == SugyaRows(G, ref)
        set(n) == SetProps(n, [ title |-> title, summary |-> summary, theme |-> theme,
                                main_question |-> main_question,
                                extraction_method |-> "ai_powered",
                                updated_at |-> G.clock ])
        stamp(n) == IF "created_at" \in DOMAIN n THEN n
                    ELSE SetProps(n, [created_at |-> G.clock])
    IN  [G EXCEPT !.sugya = m.rest \cup {stamp(set(n)) : n \in m.rows},
                  !.next_id = m.next,
                  !.clock = G.clock + 1]

\* the link query with STARTS WITH in place of CONTAINS
LinkTargetsByPrefix(texts, ref) == {t \in DOMAIN texts : StartsWith(t, ref)}

\* MATCH (t:Text) WHERE t.id CONTAINS $ref
LinkTargets(texts, ref) == {t \in DOMAIN texts : Contains(t, ref)}

\* link_query of save_sugya_to_database
LinkTexts(G, texts, ref) ==
    LET pairs == {<<n.nid, t>> : n \in {x \in G.sugya : x.ref = ref}, t \in LinkTargets(texts, ref)}
        m == MergeEdges(G.contains_text, pairs, G.next_id)
    IN  [G EXCEPT !.contains_text = m.edges, !.next_id = m.next]

\* the properties the first pass sets on a DialecticNode (a null parent_id
\* leaves the property unset)
DialecticProps(node, sequence) ==
    LET base == [ type |-> Get(node, "type", "unknown"),
                  label |-> Get(node, "label", <<>>),
                  speaker |-> Get(node, "speaker", ""),
                  content_preview |-> Get(node, "content_preview", <<>>),
                  sequence |-> sequence ]
        parent == Get(node, "parent_id", <<>>)
    IN  IF parent = None_ THEN base ELSE SetProps(base, [parent_id |-> parent])

\* f"{sugya_data['ref']}-{node['id']}"
FullId(ref, local_id) == ref \o <<"-">> \o local_id

\* the query of the first pass of _create_dialectic_nodes
MergeDialecticNode(G, sugya_ref, node_id, props) ==
    LET srows == {n \in G.sugya : n.ref = sugya_ref}
        matched == {d \in G.dnode : d.id = node_id /\ d.sugya_ref = sugya_ref}
        drows == IF matched # {} THEN matched
                 ELSE {[nid |-> G.next_id, id |-> node_id, sugya_ref |-> sugya_ref]}
        next == IF matched # {} THEN G.next_id ELSE G.next_id + 1
        \* SET d.parent_id = null removes the property
        set(d) == LET kept == IF "parent_id" \in DOMAIN props THEN DOMAIN d
                              ELSE DOMAIN d \ {"parent_id"}
                  IN  SetProps([k \in kept |-> d[k]], props)
        m == MergeEdges(G.has_dialectic_node,
                        {<<n.nid, d.nid>> : n \in srows, d \in drows}, next)
    IN  IF srows = {} THEN G
        ELSE [G EXCEPT !.dnode = (G.dnode \ matched) \cup {set(d) : d \in drows},
                       !.has_dialectic_node = m.edges,
                       !.next_id = m.next]

\* the query of the second pass of _create_dialectic_nodes
LinkLeadsTo(G, parent_full_id, child_full_id) ==
    LET pairs == {<<a.nid, b.nid>> : a \in {x \in G.dnode : x.id = parent_full_id},
                                      b \in {x \in G.dnode : x.id = child_full_id}}
        m == MergeEdges(G.leads_to, pairs, G.next_id)
    IN  [G EXCEPT !.leads_to = m.edges, !.next_id = m.next]

\* `if parent_id:` of the second pass: neither None nor the empty string
HasParent(node) == Get(node, "parent_id", None_) \notin {None_, <<>>}

\* the first query of create_sugya_node: MERGE with ON CREATE SET and ON MATCH SET
MergeSugyaNode(G, ref, title, summary) ==
    LET m == SugyaRows(G, ref)
        created == m.next # G.next_id
        set(n) == IF created
                  THEN SetProps(n, [title |-> title, summary |-> summary, created_at |-> G.clock])
                  ELSE SetProps(n, [title |-> title, summary |-> summary, updated_at |-> G.clock])
    IN  [G EXCEPT !.sugya = m.rest \cup {set(n) : n \in m.rows},
                  !.next_id = m.next,
                  !.clock = G.clock + 1]

\* link_query of create_sugya_node: t.id CONTAINS $ref OR t.id STARTS WITH $ref
LinkTextsNode(G, texts, ref) ==
    LET targets == {t \in DOMAIN texts : Contains(t, ref) \/ StartsWith(t, ref)}
        pairs == {<<n.nid, t>> : n \in {x \in G.sugya : x.ref = ref}, t \in targets}
        m == MergeEdges(G.contains_text, pairs, G.next_id)
    IN  [G EXCEPT !.contains_text = m.edges, !.next_id = m.next]

(* ------------------------------------------------------------------ *)
(* Reading the texts: discovery, fetch, grouping, combination          *)
(* ------------------------------------------------------------------ *)

\* the query of discover_all_tractates
DiscoverAllTractates(texts) ==
    SortStrings({ Split(t, " ")[1] :
                    t \in {x \in DOMAIN texts : MatchesPageColon(x) /\ Len(Split(x, " ")) > 1} })

\* the ids the query of _fetch_texts selects
FetchMatches(texts, tractate, page) ==
    IF page # <<>>
    THEN {t \in DOMAIN texts : Contains(t, tractate) /\ Contains(t, page)}
    ELSE {t \in DOMAIN texts : StartsWith(t, tractate \o <<" ">>) /\ MatchesPageColon(t)}

\* _fetch_texts: ORDER BY t.id LIMIT $limit
FetchTexts(texts, tractate, page, limit) ==
    LET ids == Prefix(SortStrings(FetchMatches(texts, tractate, page)), limit)
    IN  [k \in 1..Len(ids) |-> [id |-> ids[k], content_he |-> texts[ids[k]]]]

\* page_ref of one text id
PageRef(text_id) == TractateToken(text_id) \o <<" ">> \o PageToken(text_id)

\* _group_texts_by_page: the dict as the sequence of its items, in insertion order
RECURSIVE GroupInto(_, _)
GroupInto(pages, fetched) ==
    IF fetched = <<>> THEN pages
    ELSE LET text == Head(fetched)
         IN  IF ~HasPageToken(text.id) THEN GroupInto(pages, Tail(fetched))
             ELSE LET ref == PageRef(text.id)
                      at == {k \in 1..Len(pages) : pages[k].page_ref = ref}
                  IN  IF at = {}
                      THEN GroupInto(Append(pages, [page_ref |-> ref, texts |-> <<text>>]),
                                     Tail(fetched))
                      ELSE LET k == CHOOSE x \in at : TRUE
                           IN  GroupInto([pages EXCEPT ![k].texts = Append(@, text)],
                                         Tail(fetched))

\* a grouper that keeps every unit: one group under the key "Unknown"
GroupTextsByPageKeepsAll(fetched) ==
    IF fetched = <<>> THEN <<>>
    ELSE <<[page_ref |-> <<"U","n","k","n","o","w","n">>, texts |-> fetched]>>

GroupTextsByPage(fetched) == GroupInto(<<>>, fetched)

\* _combine_texts: '\n\n'.join of the stripped, tag-free, non-empty contents
RECURSIVE CombineTexts(_)
CombineTexts(page_texts) ==
    IF page_texts = <<>> THEN <<>>
    ELSE LET content == Strip(StripTags(Head(page_texts).content_he))
             rest == CombineTexts(Tail(page_texts))
         IN  IF content = <<>> THEN rest
             ELSE IF rest = <<>> THEN content
             ELSE content \o <<"\n", "\n">> \o rest

(* ------------------------------------------------------------------ *)
(* State                                                               *)
(* ------------------------------------------------------------------ *)

VARIABLES
    an_ref,        \* page_ref passed to the analyzer
    an_lines,      \* the lines the analysed text is made of
    an_content,    \* the analysed text
    an_call,       \* "none", "simulate" or "analyze": the function called
    an_client,     \* self.client is set
    an_behaviour,  \* what the model call did
    an_result,     \* what the call returned or raised
    texts,         \* the Text records of the store: id -> content_he
    graph,         \* the Sugya and DialecticNode records and the edges of the store
    client,        \* self.client of the extractor is set
    runs,          \* per caller: the position and the locals of its call
    faults,        \* store failures so far
    history,       \* the calls completed so far, each with the graph it left
    driver,        \* the module global of database.py: None_ or a driver instance
    db_threads,    \* per thread: its position in get_driver or close_driver, what it got
    db_ghost,      \* drivers constructed, close_driver calls, failures, drivers tested with success
    USERS,         \* the module global of api/users.py: username -> user record
    reg_threads    \* per thread: its position in register, its request, its responses

an_vars == <<an_ref, an_lines, an_content, an_call, an_client, an_behaviour, an_result>>

store_vars == <<texts, graph, client, runs, faults, history>>

db_vars == <<driver, db_threads, db_ghost>>

users_vars == <<USERS, reg_threads>>

vars == <<an_vars, store_vars, db_vars, users_vars>>

\* one thread that has not called into database.py
IdleThread == [pc |-> "idle", got |-> <<>>, outcome |-> Pending]

\* database.py as imported (driver = None) and not called
DriverUnused ==
    /\ driver = None_
    /\ db_threads = <<IdleThread>>
    /\ db_ghost = [made |-> 0, closed |-> 0, failures |-> 0, verified |-> {}]

\* api/users.py as imported (USERS = {}) and not called
UsersUnused ==
    /\ USERS = <<>>
    /\ reg_threads = <<>>

\* the analyzer's variables while the pipeline runs
AnalyzerIdle ==
    /\ an_ref = <<>>
    /\ an_lines = <<>>
    /\ an_content = <<>>
    /\ an_call = "none"
    /\ an_client = FALSE
    /\ an_behaviour = NotCalled
    /\ an_result = Pending

(* ------------------------------------------------------------------ *)
(* The analyzer called on its own                                      *)
(* ------------------------------------------------------------------ *)

AnalyzerInit ==
    /\ an_ref \in {Berakhot2a, Shabbat2a}
    /\ an_lines \in InputLines
    /\ an_content = JoinLines(an_lines)
    /\ an_call = "none"
    /\ an_client = FALSE
    /\ an_behaviour = NotCalled
    /\ an_result = Pending
    /\ texts = <<>>
    /\ graph = EmptyGraph
    /\ client = FALSE
    /\ runs = <<>>
    /\ faults = 0
    /\ history = <<>>
    /\ DriverUnused
    /\ UsersUnused

\* _simulate_ai_analysis(page_ref, content)
CallSimulate ==
    /\ an_call = "none"
    /\ an_call' = "simulate"
    /\ an_result' = Returned(SimulateAiAnalysis(an_ref, an_content))
    /\ UNCHANGED <<an_ref, an_lines, an_content, an_client, an_behaviour, store_vars, db_vars, users_vars>>

\* _analyze_sugya_with_ai(page_ref, content) without a client
CallAnalyzeNoClient ==
    /\ an_call = "none"
    /\ an_call' = "analyze"
    /\ an_client' = FALSE
    /\ an_result' = AnalyzeSugyaWithAi(FALSE, NotCalled, an_ref, an_content)
    /\ UNCHANGED <<an_ref, an_lines, an_content, an_behaviour, store_vars, db_vars, users_vars>>

\* _analyze_sugya_with_ai(page_ref, content) with a client
CallAnalyzeWithClient ==
    /\ an_call = "none"
    /\ \E b \in ModelBehaviours :
          /\ an_behaviour' = b
          /\ an_result' = AnalyzeSugyaWithAi(TRUE, b, an_ref, an_content)
    /\ an_call' = "analyze"
    /\ an_client' = TRUE
    /\ UNCHANGED <<an_ref, an_lines, an_content, store_vars, db_vars, users_vars>>

AnalyzerNext == CallSimulate \/ CallAnalyzeNoClient \/ CallAnalyzeWithClient

SpecAnalyzer == AnalyzerInit /\ [][AnalyzerNext]_vars

(* ------------------------------------------------------------------ *)
(* Properties of the analyzer                                          *)
(* ------------------------------------------------------------------ *)

AnalysisKeys == {"ref", "title", "summary", "theme", "main_question", "dialectic_nodes"}
NodeKeys == {"id", "type", "label", "speaker", "content_preview", "parent_id"}

\* the model call failed in one of the ways the analyzer absorbs
AbsorbedFailure ==
    \/ ~an_client
    \/ an_behaviour.kind \in {"raises", "content_none", "no_json", "undecodable"}

\* C2: _analyze_sugya_with_ai never raises: whether there is no client, the
\* model call raises, or its reply holds no JSON or undecodable JSON, the call
\* returns an analysis for the given page_ref carrying ref, title, summary,
\* theme, main_question and a node list (after a failure: a list of nodes).
C2_AnalyzerNeverRaises ==
    an_call = "analyze" =>
        /\ an_result.exc = "none"
        /\ DOMAIN an_result.val = AnalysisKeys
        /\ an_result.val.ref = an_ref
        /\ AbsorbedFailure =>
              LET nodes == an_result.val.dialectic_nodes
              IN  /\ Len(nodes) >= 1
                  /\ \A k \in 1..Len(nodes) : DOMAIN nodes[k] = NodeKeys

C2_Witness ==
    /\ an_call = "analyze"
    /\ an_client
    /\ an_behaviour.kind = "content_none"
    /\ an_result.exc = "none"

\* the number of non-blank lines among the given ones, counted on the input
DerivedCount ==
    LET n == Cardinality({k \in 1..Len(an_lines) : an_lines[k] # LBlank})
    IN  IF n > MaxLines THEN MaxLines ELSE n

\* C3: the fallback returns at least 5 nodes whenever fewer than 5 were derived
\* from the content lines (the empty text included), and exactly the derived
\* count otherwise.
C3_FallbackAtLeastFive ==
    an_call = "simulate" =>
        LET n == Len(an_result.val.dialectic_nodes)
        IN  /\ DerivedCount < MinNodes => n >= MinNodes
            /\ DerivedCount >= MinNodes => n = DerivedCount

\* C4: in every fallback analysis the non-null parent ids are ids of nodes of
\* the analysis, and every node after the first names an earlier node as parent.
C4_FallbackParentsResolve ==
    an_call = "simulate" =>
        LET nodes == an_result.val.dialectic_nodes
            ids == {nodes[k].id : k \in 1..Len(nodes)}
        IN  /\ {nodes[k].parent_id : k \in 1..Len(nodes)} \ {None_} \subseteq ids
            /\ \A k \in 2..Len(nodes) : \E j \in 1..(k - 1) : nodes[j].id = nodes[k].parent_id

\* the three-line text of the end-to-end scenario
ScenarioLines == <<LQuestion, LStatement, LDispute>>

\* the four padding nodes follow node 3, chained linearly from it
ScenarioPadding(nodes) ==
    /\ Len(nodes) = 7
    /\ nodes[1].type = "mishnah" /\ nodes[1].parent_id = None_
    /\ <<nodes[4].type, nodes[5].type, nodes[6].type, nodes[7].type>>
          = <<"kasha", "terutz", "proof", "conclusion">>
    /\ \A k \in 2..7 : nodes[k].parent_id = nodes[k - 1].id
    /\ \A k \in 1..7 : nodes[k].id = DecStr(k)

\* C5 as stated: on the scenario text node 2 is a challenge (kasha) and node 3
\* a statement or a dispute.
C5_ScenarioAsStated ==
    (an_call = "simulate" /\ an_lines = ScenarioLines) =>
        LET nodes == an_result.val.dialectic_nodes
        IN  /\ ScenarioPadding(nodes)
            /\ nodes[2].type = "kasha"
            /\ nodes[3].type \in {"statement", "dispute"}

\* C5 amended: on the scenario text the fallback yields 7 nodes: node 1 a
\* teaching (mishnah) with null parent, node 2 of type question and node 3 of
\* type answer (neither line holds a question mark or a marker, so parity
\* decides), then the padding nodes challenge, resolution, proof, conclusion
\* chained linearly from node 3.
C5_ScenarioByParity ==
    (an_call = "simulate" /\ an_lines = ScenarioLines) =>
        LET nodes == an_result.val.dialectic_nodes
        IN  /\ ScenarioPadding(nodes)
            /\ nodes[2].type = "question"
            /\ nodes[3].type = "answer"

C5_Witness ==
    /\ an_call = "simulate"
    /\ an_content = LQuestion \o <<"\n">> \o LStatement \o <<"\n">> \o LDispute \o <<"\n">>
    /\ Len(an_result.val.dialectic_nodes) = 7

\* the line holds one of the words
HoldsAny(line, words) == \E w \in words : Contains(line, w)

\* C18: the fallback types each visited line by a fixed priority: line 1 is
\* the opening teaching (mishnah) whatever it holds; a later line with a
\* question mark or an interrogative marker is a challenge (kasha) even if it
\* also holds an assertion or dispute marker; else a line with an assertion
\* marker is a statement; else a line with a dispute marker is a dispute; else
\* the type is question at even positions and answer at odd positions.
C18_TypingPriority ==
    an_call = "simulate" =>
        LET lines == ContentLines(an_content)
            nodes == an_result.val.dialectic_nodes
        IN  \A i \in 1..Len(lines) :
                i <= MaxLines =>
                    LET asks == Contains(lines[i], <<"?">>) \/ HoldsAny(lines[i], InterrogativeMarkers)
                        asserts == HoldsAny(lines[i], AssertionMarkers)
                        disputes == HoldsAny(lines[i], DisputeMarkers)
                    IN  /\ i = 1 => nodes[i].type = "mishnah"
                        /\ (i > 1 /\ asks) => nodes[i].type = "kasha"
                        /\ (i > 1 /\ ~asks /\ asserts) => nodes[i].type = "statement"
                        /\ (i > 1 /\ ~asks /\ ~asserts /\ disputes) => nodes[i].type = "dispute"
                        /\ (i > 1 /\ ~asks /\ ~asserts /\ ~disputes /\ i % 2 = 0) =>
                              nodes[i].type = "question"
                        /\ (i > 1 /\ ~asks /\ ~asserts /\ ~disputes /\ i % 2 = 1) =>
                              nodes[i].type = "answer"

\* a first line with a question mark, a second line with an assertion marker
\* and a question mark, then lines without markers at positions 3 and 4
C18_Witness ==
    /\ an_call = "simulate"
    /\ an_lines = <<LQuestion, LHebAssertAsk, FillerLine, FillerLine>>
    /\ LET nodes == an_result.val.dialectic_nodes
       IN  <<nodes[1].type, nodes[2].type, nodes[3].type, nodes[4].type>>
              = <<"mishnah", "kasha", "answer", "question">>

\* the analyzer was called with a client whose model call returned a reply
Replied ==
    /\ an_call = "analyze"
    /\ an_client
    /\ an_behaviour.kind \in {"no_json", "undecodable", "object"}

DefaultLimit == 50

\* limit_per_tractate: int = 100
DefaultLimitPerTractate == 100

IdleRun ==
    [ entry |-> "none", pc |-> "idle", outcome |-> Pending,
      limit |-> 0, tractates |-> <<>>, ti |-> 0, all_stats |-> <<>>,
      tractate |-> <<>>, start_page |-> <<>>,
      pages |-> <<>>, pj |-> 0, sugyot |-> <<>>, sk |-> 0,
      saved_count |-> 0, failed_count |-> 0,
      data |-> <<>>, ni |-> 0, log |-> <<>> ]

\* the stats dict of extract_and_save_all
SingleStats(r) ==
    [ total_extracted |-> Len(r.sugyot), saved |-> r.saved_count, failed |-> r.failed_count,
      tractate |-> r.tractate, start_page |-> r.start_page ]

\* extract_all_sugyot returns (or raises)
AllReturn(r, result) == [r EXCEPT !.pc = "idle", !.outcome = result]

\* the except clause of extract_all_sugyot left out: the exception escapes the loop
SingleReturnUncaught(r, result) ==
    IF r.entry = "single" \/ result.exc # "none" THEN [r EXCEPT !.pc = "idle", !.outcome = result]
    ELSE [r EXCEPT !.pc = "all_loop", !.ti = r.ti + 1,
                   !.all_stats = [r.all_stats EXCEPT
                       !.tractates_processed = @ + 1,
                       !.total_extracted = @ + result.val.total_extracted,
                       !.total_saved = @ + result.val.saved,
                       !.total_failed = @ + result.val.failed,
                       !.tractate_details = Append(@,
                           [ tractate |-> r.tractate,
                             extracted |-> result.val.total_extracted,
                             saved |-> result.val.saved ])]]

\* extract_and_save_all returns (or raises) to its caller: the top level, or the
\* try block of the loop of extract_all_sugyot
SingleReturn(r, result) ==
    IF r.entry = "single" THEN [r EXCEPT !.pc = "idle", !.outcome = result]
    ELSE IF result.exc = "none"
    THEN [r EXCEPT !.pc = "all_loop", !.ti = r.ti + 1,
                   !.all_stats = [r.all_stats EXCEPT
                       !.tractates_processed = @ + 1,
                       !.total_extracted = @ + result.val.total_extracted,
                       !.total_saved = @ + result.val.saved,
                       !.total_failed = @ + result.val.failed,
                       !.tractate_details = Append(@,
                           [ tractate |-> r.tractate,
                             extracted |-> result.val.total_extracted,
                             saved |-> result.val.saved ])]]
    ELSE IF ExceptException(result.exc)
    THEN [r EXCEPT !.pc = "all_loop", !.ti = r.ti + 1,
                   !.all_stats = [r.all_stats EXCEPT
                       !.tractate_details = Append(@,
                           [tractate |-> r.tractate, error |-> result.exc])]]
    ELSE AllReturn(r, result)

\* what the run prints and raises, in order: the kind of event, the tractate of
\* the run, the page ref, and the position the run was at
Event(r, ev, ref) == [ev |-> ev, tractate |-> r.tractate, ref |-> ref, at |-> r.pc]

Logged(r, ev, ref) == [r EXCEPT !.log = Append(@, Event(r, ev, ref))]

\* a loop of extract_and_save_all that counts the saved pages only
SaveReturnFailureUncounted(r, result) ==
    IF r.entry = "save" THEN [r EXCEPT !.pc = "idle", !.outcome = result]
    ELSE IF result.exc # "none" THEN SingleReturn(Logged(r, "raise", r.data.ref), result)
    ELSE [Logged(r, IF result.val THEN "saved" ELSE "failed", r.data.ref)
             EXCEPT !.pc = "save_loop", !.sk = r.sk + 1,
                    !.saved_count = IF result.val THEN @ + 1 ELSE @]

\* save_sugya_to_database returns (or raises) to its caller: the top level, or
\* the loop of extract_and_save_all
SaveReturn(r, result) ==
    IF r.entry = "save" THEN [r EXCEPT !.pc = "idle", !.outcome = result]
    ELSE IF result.exc # "none" THEN SingleReturn(Logged(r, "raise", r.data.ref), result)
    ELSE [Logged(r, IF result.val THEN "saved" ELSE "failed", r.data.ref)
             EXCEPT !.pc = "save_loop", !.sk = r.sk + 1,
                    !.saved_count = IF result.val THEN @ + 1 ELSE @,
                    !.failed_count = IF result.val THEN @ ELSE @ + 1]

\* `with self.driver.session() as session:` stands outside the try block
SaveOpenFailure(e) == Raised(e)

\* an except clause that raises the exception again
SaveCatchReraises(e) == Raised(e)

\* the except clause of save_sugya_to_database
SaveCatch(e) == IF ExceptException(e) THEN Returned(FALSE) ELSE Raised(e)

\* the index of the first node from k on that the second pass links; 0 if none
NextLinked(nodes, k) ==
    LET at == {j \in k..Len(nodes) : HasParent(nodes[j])}
    IN  IF at = {} THEN 0 ELSE CHOOSE j \in at : \A x \in at : j <= x

\* what a step leaves: the caller's record, the graph, the failures so far
Commit(p, r2, G2, f2) ==
    /\ runs' = [runs EXCEPT ![p] = r2]
    /\ graph' = G2
    /\ faults' = f2
    /\ history' = IF r2.pc = "idle"
                  THEN Append(history, [ entry |-> runs[p].entry, data |-> runs[p].data,
                                         outcome |-> r2.outcome, graph |-> G2 ])
                  ELSE history
    /\ UNCHANGED <<texts, client, an_vars, db_vars, users_vars>>

(* ------------------------------------------------------------------ *)
(* save_sugya_to_database and _create_dialectic_nodes, query by query  *)
(* ------------------------------------------------------------------ *)

\* save_sugya_to_database(sugya_data) called directly
CallSave(p, sugya_data) ==
    /\ runs[p].pc = "idle"
    /\ Len(history) < MaxCalls
    /\ Commit(p, [IdleRun EXCEPT !.entry = "save", !.pc = "save_open", !.data = sugya_data],
              graph, faults)

\* with self.driver.session() as session
SaveOpen(p) ==
    /\ runs[p].pc = "save_open"
    /\ \/ Commit(p, [runs[p] EXCEPT !.pc = "save_sugya"], graph, faults)
       \/ /\ faults < MaxFaults
          /\ Commit(p, SaveReturn(runs[p], SaveOpenFailure("ServiceUnavailable")),
                    graph, faults + 1)

\* the MERGE of the Sugya record
SaveSugya(p) ==
    LET r == runs[p]
        d == r.data
    IN  /\ r.pc = "save_sugya"
        /\ IF ~({"ref", "title", "summary"} \subseteq DOMAIN d)
           THEN Commit(p, SaveReturn(r, SaveCatch("KeyError")), graph, faults)
           ELSE \/ Commit(p, [r EXCEPT !.pc = "save_link"],
                          MergeSugya(graph, d.ref, d.title, d.summary, Get(d, "theme", ""),
                                     Get(d, "main_question", <<>>)),
                          faults)
                \/ /\ faults < MaxFaults
                   /\ Commit(p, SaveReturn(r, SaveCatch("Neo4jError")), graph, faults + 1)

\* the link query, then `if sugya_data.get('dialectic_nodes')`
SaveLink(p) ==
    LET r == runs[p]
        d == r.data
    IN  /\ r.pc = "save_link"
        /\ \/ Commit(p, IF Len(Get(d, "dialectic_nodes", <<>>)) > 0
                        THEN [r EXCEPT !.pc = "save_node", !.ni = 1]
                        ELSE SaveReturn(r, Returned(TRUE)),
                     LinkTexts(graph, texts, d.ref), faults)
           \/ /\ faults < MaxFaults
              /\ Commit(p, SaveReturn(r, SaveCatch("Neo4jError")), graph, faults + 1)

\* a single pass: each node is upserted and linked to its parent at once
SaveNodeLinksAtOnce(p) ==
    LET r == runs[p]
        d == r.data
        nodes == d.dialectic_nodes
        node == nodes[r.ni]
        upserted == MergeDialecticNode(graph, d.ref, FullId(d.ref, node.id),
                                       DialecticProps(node, r.ni))
    IN  /\ r.pc = "save_node"
        /\ IF "id" \notin DOMAIN node
           THEN Commit(p, SaveReturn(r, SaveCatch("KeyError")), graph, faults)
           ELSE \/ Commit(p, IF r.ni < Len(nodes) THEN [r EXCEPT !.ni = r.ni + 1]
                             ELSE SaveReturn(r, Returned(TRUE)),
                          IF HasParent(node)
                          THEN LinkLeadsTo(upserted, FullId(d.ref, node.parent_id),
                                           FullId(d.ref, node.id))
                          ELSE upserted,
                          faults)
                \/ /\ faults < MaxFaults
                   /\ Commit(p, SaveReturn(r, SaveCatch("Neo4jError")), graph, faults + 1)

\* one query of the first pass; after the last one the second pass begins
SaveNode(p) ==
    LET r == runs[p]
        d == r.data
        nodes == d.dialectic_nodes
        node == nodes[r.ni]
        first == NextLinked(nodes, 1)
    IN  /\ r.pc = "save_node"
        /\ IF "id" \notin DOMAIN node
           THEN Commit(p, SaveReturn(r, SaveCatch("KeyError")), graph, faults)
           ELSE \/ Commit(p, IF r.ni < Len(nodes) THEN [r EXCEPT !.ni = r.ni + 1]
                             ELSE IF first # 0 THEN [r EXCEPT !.pc = "save_edge", !.ni = first]
                             ELSE SaveReturn(r, Returned(TRUE)),
                          MergeDialecticNode(graph, d.ref, FullId(d.ref, node.id),
                                             DialecticProps(node, r.ni)),
                          faults)
                \/ /\ faults < MaxFaults
                   /\ Commit(p, SaveReturn(r, SaveCatch("Neo4jError")), graph, faults + 1)

\* one query of the second pass, for the next node that names a parent
SaveEdge(p) ==
    LET r == runs[p]
        d == r.data
        nodes == d.dialectic_nodes
        node == nodes[r.ni]
        next == NextLinked(nodes, r.ni + 1)
    IN  /\ r.pc = "save_edge"
        /\ \/ Commit(p, IF next # 0 THEN [r EXCEPT !.ni = next]
                        ELSE SaveReturn(r, Returned(TRUE)),
                     LinkLeadsTo(graph, FullId(d.ref, node.parent_id), FullId(d.ref, node.id)),
                     faults)
           \/ /\ faults < MaxFaults
              /\ Commit(p, SaveReturn(r, SaveCatch("Neo4jError")), graph, faults + 1)

SaveSteps(p) == SaveOpen(p) \/ SaveSugya(p) \/ SaveLink(p) \/ SaveNode(p) \/ SaveEdge(p)

(* ------------------------------------------------------------------ *)
(* SugyaManager.create_sugya_node, query by query                      *)
(* ------------------------------------------------------------------ *)

\* create_sugya_node returns (or raises) to its caller
CreateReturn(r, result) == [r EXCEPT !.pc = "idle", !.outcome = result]

\* create_sugya_node(sugya_ref, title, summary) called
CallCreate(p, sugya_ref, title, summary) ==
    /\ runs[p].pc = "idle"
    /\ Len(history) < MaxCalls
    /\ Commit(p, [IdleRun EXCEPT !.entry = "create", !.pc = "create_open",
                                 !.data = [ref |-> sugya_ref, title |-> title,
                                           summary |-> summary]],
              graph, faults)

\* with self.driver.session() as session
CreateOpen(p) ==
    /\ runs[p].pc = "create_open"
    /\ \/ Commit(p, [runs[p] EXCEPT !.pc = "create_sugya"], graph, faults)
       \/ /\ faults < MaxFaults
          /\ Commit(p, CreateReturn(runs[p], Raised("ServiceUnavailable")), graph, faults + 1)

\* the MERGE of the Sugya record
CreateSugya(p) ==
    LET r == runs[p]
    IN  /\ r.pc = "create_sugya"
        /\ \/ Commit(p, [r EXCEPT !.pc = "create_link"],
                     MergeSugyaNode(graph, r.data.ref, r.data.title, r.data.summary), faults)
           \/ /\ faults < MaxFaults
              /\ Commit(p, CreateReturn(r, Raised("Neo4jError")), graph, faults + 1)

\* the link query, then `return True`
CreateLink(p) ==
    LET r == runs[p]
    IN  /\ r.pc = "create_link"
        /\ \/ Commit(p, CreateReturn(r, Returned(TRUE)),
                     LinkTextsNode(graph, texts, r.data.ref), faults)
           \/ /\ faults < MaxFaults
              /\ Commit(p, CreateReturn(r, Raised("Neo4jError")), graph, faults + 1)

(* ------------------------------------------------------------------ *)
(* Persistence called directly                                         *)
(* ------------------------------------------------------------------ *)

Colon1 == <<":", "1">>
Colon2 == <<":", "2">>

\* the Text records of the containment scenario, and one whose id holds the ref
\* "Berakhot 2a" after a prefix
ScenarioTexts ==
    (Berakhot2a \o Colon1) :> <<"x">>
    @@ (Berakhot2a \o Colon2) :> <<"<", "b", ">", "y", "<", "/", "b", ">">>
    @@ (Shabbat2a \o Colon1) :> <<"z">>
    @@ (<<"J", "T", " ">> \o Berakhot2a \o Colon1) :> <<"x">>

\* analyses handed to save_sugya_to_database: the fallback's, a model reply's,
\* one whose nodes repeat an id, name a later node and a missing node as parent,
\* one for another ref, one with a node that has no id, one without a title,
\* one whose third node answers the first node
Analyses ==
    { SimulateAiAnalysis(Berakhot2a, <<"x">>),
      [ ref |-> Berakhot2a, title |-> <<"T">>, summary |-> <<"S">>, theme |-> "th",
        main_question |-> <<"Q">>, dialectic_nodes |-> ReplyNodes ],
      [ ref |-> Berakhot2a, title |-> <<"U">>, summary |-> <<"S">>,
        dialectic_nodes |->
          << [id |-> <<"1">>, type |-> "answer", parent_id |-> <<"2">>],
             [id |-> <<"2">>, type |-> "question", parent_id |-> <<>>],
             [id |-> <<"1">>, type |-> "proof", parent_id |-> <<"9">>] >> ],
      [ ref |-> Shabbat2a, title |-> <<"T">>, summary |-> <<"S">>, theme |-> "th",
        main_question |-> <<"Q">>, dialectic_nodes |-> <<>> ],
      [ ref |-> Shabbat2a, title |-> <<"T">>, summary |-> <<"S">>,
        dialectic_nodes |-> << [id |-> <<"1">>, type |-> "mishnah"], [type |-> "question"] >> ],
      [ ref |-> Berakhot2a, summary |-> <<"S">>, dialectic_nodes |-> ReplyNodes ],
      [ ref |-> Berakhot2a, title |-> <<"V">>, summary |-> <<"S">>,
        dialectic_nodes |->
          << [id |-> <<"1">>, type |-> "mishnah", parent_id |-> None_],
             [id |-> <<"2">>, type |-> "question", parent_id |-> <<"1">>],
             [id |-> <<"3">>, type |-> "answer", parent_id |-> <<"1">>] >> ] }

Init ==
    /\ AnalyzerIdle
    /\ texts = ScenarioTexts
    /\ graph = EmptyGraph
    /\ client = FALSE
    /\ runs = <<IdleRun>>
    /\ faults = 0
    /\ history = <<>>
    /\ DriverUnused
    /\ UsersUnused

DirectSave == \E p \in DOMAIN runs : \E a \in Analyses : CallSave(p, a)
DirectCreate ==
    \E p \in DOMAIN runs : \E sugya_ref \in {Berakhot2a, Shabbat2a} : \E title \in {<<"T">>, <<"I">>} :
        CallCreate(p, sugya_ref, title, <<>>)
CreateSessionOpened == \E p \in DOMAIN runs : CreateOpen(p)
CreateSugyaMerged == \E p \in DOMAIN runs : CreateSugya(p)
CreateTextsLinked == \E p \in DOMAIN runs : CreateLink(p)
SessionOpened == \E p \in DOMAIN runs : SaveOpen(p)
SugyaMerged == \E p \in DOMAIN runs : SaveSugya(p)
TextsLinked == \E p \in DOMAIN runs : SaveLink(p)
NodeMerged == \E p \in DOMAIN runs : SaveNode(p)
EdgeMerged == \E p \in DOMAIN runs : SaveEdge(p)

SaveNext == SessionOpened \/ SugyaMerged \/ TextsLinked \/ NodeMerged \/ EdgeMerged

CreateNext == CreateSessionOpened \/ CreateSugyaMerged \/ CreateTextsLinked

Next == DirectSave \/ SaveNext \/ DirectCreate \/ CreateNext

Spec == Init /\ [][Next]_vars

(* ------------------------------------------------------------------ *)
(* Properties of persistence                                           *)
(* ------------------------------------------------------------------ *)

\* call i of the history was save_sugya_to_database and returned True
SavedAt(i) ==
    /\ history[i].entry = "save"
    /\ history[i].outcome.exc = "none"
    /\ history[i].outcome.val = TRUE

\* calls i and i + 1 persisted the same analysis, both with success
SavedTwiceAt(i) ==
    /\ i + 1 <= Len(history)
    /\ SavedAt(i) /\ SavedAt(i + 1)
    /\ history[i].data = history[i + 1].data

\* a Sugya record without the time of its last write
WithoutUpdatedAt(n) == [k \in DOMAIN n \ {"updated_at"} |-> n[k]]

\* the local ids of an analysis
LocalIds(a) == {a.dialectic_nodes[k].id : k \in 1..Len(a.dialectic_nodes)}

ContainedTexts(G, ref) ==
    {e.dst : e \in {x \in G.contains_text : \E n \in G.sugya : n.ref = ref /\ n.nid = x.src}}

\* t holds ref as a substring: t = u \o ref \o v for some u and v
HoldsRef(t, ref) ==
    \E a \in 0..Len(t) : \E b \in a..Len(t) :
        SubSeq(t, a + 1, b) = ref

\* C6: after a successful save for ref R the CONTAINS_TEXT edges from Sugya R go
\* to exactly the Text records whose id holds R as a substring; for "Berakhot 2a"
\* they go to "Berakhot 2a:1" and "Berakhot 2a:2" and not to "Shabbat 2a:1".
C6_ContainmentBySubstring ==
    \A i \in 1..Len(history) :
        SavedAt(i) =>
            LET R == history[i].data.ref
                to == ContainedTexts(history[i].graph, R)
            IN  /\ to = {t \in DOMAIN texts : HoldsRef(t, R)}
                /\ R = Berakhot2a =>
                      /\ Berakhot2a \o Colon1 \in to
                      /\ Berakhot2a \o Colon2 \in to
                      /\ Shabbat2a \o Colon1 \notin to

C6_Witness ==
    \E i \in 1..Len(history) :
        /\ SavedAt(i)
        /\ history[i].data.ref = Berakhot2a
        /\ Cardinality(ContainedTexts(history[i].graph, Berakhot2a)) = 3

\* C8: save_sugya_to_database returns a boolean and never raises, whichever
\* step of the call the store fails at (opening the session included).
C8_SaveNeverRaises ==
    \A i \in 1..Len(history) :
        history[i].entry = "save" =>
            /\ history[i].outcome.exc = "none"
            /\ history[i].outcome.val \in BOOLEAN

\* the Sugya record of G with the given identity
SugyaOf(G, nid) == CHOOSE n \in G.sugya : n.nid = nid

\* C12: a write to the Sugya record of a ref (by save_sugya_to_database or by
\* create_sugya_node, in any order) that creates the record sets created_at; a
\* write to an existing record leaves created_at as it is and sets updated_at
\* to the time of the write; no record is lost and no other record is touched.
C12_CreatedOnceUpdatedAlways ==
    [][ /\ \A n \in graph.sugya : \E n2 \in graph'.sugya : n2.nid = n.nid
        /\ \A n2 \in graph'.sugya :
              IF \E n \in graph.sugya : n.nid = n2.nid
              THEN LET n == SugyaOf(graph, n2.nid)
                   IN  \/ n2 = n
                       \/ /\ n2.ref = n.ref
                          /\ n2.created_at = n.created_at
                          /\ n2.updated_at = graph.clock
                          /\ graph'.clock > graph.clock
                          /\ n2.updated_at >= n.created_at
                          /\ "updated_at" \in DOMAIN n => n2.updated_at > n.updated_at
              ELSE /\ n2.created_at = graph.clock
                   /\ graph'.clock > graph.clock ]_vars

\* a Sugya record created by one of the two functions and written again by the
\* other one
C12_Witness ==
    \E i \in 1..Len(history) : \E j \in 1..Len(history) :
        /\ i < j
        /\ history[i].entry = "create" /\ history[j].entry = "save"
        /\ history[i].outcome.exc = "none" /\ SavedAt(j)
        /\ history[i].data.ref = history[j].data.ref
        /\ \E n \in history[i].graph.sugya : \E n2 \in history[j].graph.sugya :
              /\ n.nid = n2.nid
              /\ "updated_at" \notin DOMAIN n
              /\ n2.created_at = n.created_at
              /\ n2.updated_at > n2.created_at

(* ------------------------------------------------------------------ *)
(* The runs: extract_and_save_all and extract_all_sugyot               *)
(* ------------------------------------------------------------------ *)

Page2a == <<"2", "a">>
Genesis == <<"G", "e", "n", "e", "s", "i", "s">>
Berakhot12a == Berakhot \o <<" ", "1", "2", "a">>
Eruvin2a == Eruvin \o <<" ", "2", "a">>
Genesis11 == <<"G", "e", "n", "e", "s", "i", "s", " ", "1", ":", "1">>

\* a store with three tractates, one of them with two pages of which one has
\* two texts, and a text that is no Talmud page
RunTexts ==
    (Berakhot12a \o Colon1) :> <<"x">>
    @@ (Berakhot2a \o Colon1) :> <<"<", "b", ">", "y", "<", "/", "b", ">">>
    @@ (Berakhot2a \o Colon2) :> <<"w", "?">>
    @@ (Eruvin2a \o Colon1) :> <<"z">>
    @@ (Shabbat2a \o Colon1) :> <<"z">>
    @@ Genesis11 :> <<"g">>

\* a store without a Talmud page
OtherTexts == Genesis11 :> <<"g">>

\* the store of the discovery scenario
DiscoveryTexts ==
    (Berakhot2a \o Colon1) :> <<"x">>
    @@ (Berakhot \o <<" ", "3", "b">> \o Colon1) :> <<"x">>
    @@ (Shabbat \o <<" ", "1", "0", "a">> \o Colon1) :> <<"x">>

\* a store that holds a commentary on a page next to the page
CommentaryTexts ==
    (Berakhot2a \o Colon1) :> <<"x">>
    @@ (<<"R", "a", "s", "h", "i", " ", "o", "n", " ">> \o Berakhot2a \o Colon1) :> <<"c">>

\* what the model call does during a run: it fails, or replies with an object
RunBehaviours ==
    { [kind |-> "raises", data |-> <<>>],
      [kind |-> "object",
       data |-> [title |-> <<"T">>, summary |-> <<"S">>, theme |-> "th",
                 main_question |-> <<"Q">>, dialectic_nodes |-> ReplyNodes]] }

\* sugya_data['texts'] = page_texts
WithTexts(sugya_data, page_texts) ==
    [k \in DOMAIN sugya_data \cup {"texts"} |->
        IF k = "texts" THEN page_texts ELSE sugya_data[k]]

\* a loop that hands each analysis to persistence as soon as it is made
AnalyzeNextSavesAtOnce(r) == [r EXCEPT !.pc = "save_loop", !.sk = Len(r.sugyot)]

\* the loop of extract_sugyot_from_tractate after one page: the next page, or
\* the list is returned and the loop of extract_and_save_all begins
AnalyzeNext(r) ==
    IF r.pj < Len(r.pages) THEN [r EXCEPT !.pj = r.pj + 1]
    ELSE [r EXCEPT !.pc = "save_loop", !.sk = 1]

\* extract_and_save_all(tractate, start_page, limit) called directly
CallSingle(p, tractate, start_page, limit) ==
    /\ runs[p].pc = "idle"
    /\ history = <<>>
    /\ Commit(p, [IdleRun EXCEPT !.entry = "single", !.pc = "fetch", !.tractate = tractate,
                                 !.start_page = start_page, !.limit = limit],
              graph, faults)

\* _fetch_texts, `if not texts: return []`, _group_texts_by_page
Fetch(p) ==
    LET r == runs[p]
        fetched == FetchTexts(texts, r.tractate, r.start_page, r.limit)
        pages == GroupTextsByPage(fetched)
    IN  /\ r.pc = "fetch"
        /\ \/ Commit(p, IF Len(fetched) = 0 \/ Len(pages) = 0
                        THEN [r EXCEPT !.pc = "save_loop", !.sk = 1]
                        ELSE [r EXCEPT !.pc = "analyze", !.pages = pages, !.pj = 1],
                     graph, faults)
           \/ /\ faults < MaxFaults
              /\ Commit(p, SingleReturn(Logged(r, "raise", <<>>), Raised("ServiceUnavailable")),
                        graph, faults + 1)

\* one turn of the loop of extract_sugyot_from_tractate
Analyze(p) ==
    LET r == runs[p]
        page == r.pages[r.pj]
        combined_content == CombineTexts(page.texts)
    IN  /\ r.pc = "analyze"
        /\ \E b \in IF client THEN RunBehaviours ELSE {NotCalled} :
              LET res == AnalyzeSugyaWithAi(client, b, page.page_ref, combined_content)
                  r1 == Logged(r, "analyze", page.page_ref)
              IN  IF res.exc # "none"
                  THEN Commit(p, SingleReturn(Logged(r1, "raise", page.page_ref), res),
                              graph, faults)
                  ELSE Commit(p, AnalyzeNext([r1 EXCEPT !.sugyot =
                                     IF DOMAIN res.val # {}
                                     THEN Append(@, WithTexts(res.val, page.texts)) ELSE @]),
                              graph, faults)

\* one turn of the loop of extract_and_save_all, or its return
SaveLoop(p) ==
    LET r == runs[p]
    IN  /\ r.pc = "save_loop"
        /\ Commit(p, IF r.sk <= Len(r.sugyot)
                     THEN [Logged(r, "save_begin", r.sugyot[r.sk].ref)
                              EXCEPT !.pc = "save_open", !.data = r.sugyot[r.sk]]
                     ELSE SingleReturn(r, Returned(SingleStats(r))),
                  graph, faults)

\* extract_all_sugyot(limit_per_tractate) called
CallAll(p, limit) ==
    /\ runs[p].pc = "idle"
    /\ history = <<>>
    /\ Commit(p, [IdleRun EXCEPT !.entry = "all", !.pc = "discover", !.limit = limit],
              graph, faults)

\* discover_all_tractates, `if not tractates`, the initial all_stats
Discover(p) ==
    LET r == runs[p]
        tractates == DiscoverAllTractates(texts)
    IN  /\ r.pc = "discover"
        /\ \/ Commit(p, IF Len(tractates) = 0
                        THEN AllReturn(r, Returned([ tractates_found |-> 0,
                                                     tractates_processed |-> 0,
                                                     total_extracted |-> 0, total_saved |-> 0,
                                                     total_failed |-> 0 ]))
                        ELSE [r EXCEPT !.pc = "all_loop", !.tractates = tractates, !.ti = 1,
                                       !.all_stats = [ tractates_found |-> Len(tractates),
                                                       tractates_processed |-> 0,
                                                       total_extracted |-> 0, total_saved |-> 0,
                                                       total_failed |-> 0,
                                                       tractate_details |-> <<>> ]],
                     graph, faults)
           \/ /\ faults < MaxFaults
              /\ Commit(p, AllReturn(r, Raised("ServiceUnavailable")), graph, faults + 1)

\* one turn of the loop of extract_all_sugyot, or its return
AllLoop(p) ==
    LET r == runs[p]
        tractate == r.tractates[r.ti]
    IN  /\ r.pc = "all_loop"
        /\ Commit(p, IF r.ti <= Len(r.tractates)
                     THEN Logged([r EXCEPT !.pc = "fetch", !.tractate = tractate,
                                           !.start_page = <<>>, !.pages = <<>>, !.pj = 0,
                                           !.sugyot = <<>>, !.sk = 0, !.saved_count = 0,
                                           !.failed_count = 0, !.data = <<>>, !.ni = 0],
                                 "tractate", <<>>)
                     ELSE AllReturn(r, Returned(r.all_stats)),
                  graph, faults)

RunInit ==
    /\ AnalyzerIdle
    /\ texts \in {RunTexts, OtherTexts, DiscoveryTexts, CommentaryTexts}
    /\ graph = EmptyGraph
    /\ client \in BOOLEAN
    /\ runs = <<IdleRun>>
    /\ faults = 0
    /\ history = <<>>
    /\ DriverUnused
    /\ UsersUnused

\* the tractate and start_page arguments of the calls
SingleRequests ==
    {<<Berakhot, Page2a>>, <<Berakhot, <<>>>>, <<Eruvin, Page2a>>, <<Eruvin, <<>>>>,
     <<Genesis, <<"1">>>>}

StartSingle ==
    \E p \in DOMAIN runs : \E request \in SingleRequests :
        \E limit \in {SmallLimit, DefaultLimit} : CallSingle(p, request[1], request[2], limit)
StartAll ==
    \E p \in DOMAIN runs : \E limit \in {SmallLimit, DefaultLimitPerTractate} : CallAll(p, limit)
TextsFetched == \E p \in DOMAIN runs : Fetch(p)
PageAnalyzed == \E p \in DOMAIN runs : Analyze(p)
SaveLoopTurned == \E p \in DOMAIN runs : SaveLoop(p)
TractatesDiscovered == \E p \in DOMAIN runs : Discover(p)
AllLoopTurned == \E p \in DOMAIN runs : AllLoop(p)

RunNext ==
    \/ StartSingle \/ StartAll \/ TextsFetched \/ PageAnalyzed \/ SaveLoopTurned
    \/ TractatesDiscovered \/ AllLoopTurned \/ SaveNext

SpecRun == RunInit /\ [][RunNext]_vars

(* ------------------------------------------------------------------ *)
(* Properties of the runs                                              *)
(* ------------------------------------------------------------------ *)

\* the run of caller p has returned or raised
RunDone(p, entry) == runs[p].entry = entry /\ runs[p].pc = "idle"

\* the positions of the log that hold an event of the given kinds for a tractate
EventsAt(log, kinds, tractate) ==
    {i \in 1..Len(log) : log[i].ev \in kinds /\ log[i].tractate = tractate}

\* the page refs of the events of one kind for a tractate, in the order of the log
RECURSIVE RefsOf(_, _, _)
RefsOf(log, ev, tractate) ==
    IF log = <<>> THEN <<>>
    ELSE LET rest == RefsOf(Tail(log), ev, tractate)
         IN  IF Head(log).ev = ev /\ Head(log).tractate = tractate
             THEN <<Head(log).ref>> \o rest ELSE rest

\* the detail entries that carry an error
ErrorEntries(details) == {k \in 1..Len(details) : "error" \in DOMAIN details[k]}

\* C7: once extract_all_sugyot has discovered its tractates, an exception raised
\* while one of them is processed is caught and recorded as an error entry in
\* that tractate's detail; the loop goes on to every later tractate, the call
\* returns, and tractates_processed counts the tractates that completed (three
\* tractates with the second failing: tractates_processed = 2, three entries).
C7_TractateFailureContained ==
    \A p \in DOMAIN runs :
        (RunDone(p, "all") /\ Len(runs[p].tractates) > 0) =>
            LET r == runs[p]
            IN  /\ r.outcome.exc = "none"
                /\ LET stats == r.outcome.val
                       details == stats.tractate_details
                   IN  /\ Len(details) = Len(r.tractates)
                       /\ \A k \in 1..Len(details) :
                             /\ details[k].tractate = r.tractates[k]
                             /\ EventsAt(r.log, {"tractate"}, r.tractates[k]) # {}
                             /\ ("error" \in DOMAIN details[k])
                                   <=> EventsAt(r.log, {"raise"}, r.tractates[k]) # {}
                       /\ stats.tractates_processed
                             = Len(details) - Cardinality(ErrorEntries(details))
                       /\ (Len(details) = 3 /\ ErrorEntries(details) = {2})
                             => stats.tractates_processed = 2

C7_Witness ==
    \E p \in DOMAIN runs :
        /\ RunDone(p, "all")
        /\ runs[p].outcome.exc = "none"
        /\ runs[p].tractates = <<Berakhot, Eruvin, Shabbat>>
        /\ ErrorEntries(runs[p].outcome.val.tractate_details) = {2}
        /\ runs[p].outcome.val.tractates_processed = 2
        /\ runs[p].outcome.val.tractate_details[3].saved = 1

\* C9 as stated: in a single-tractate run a persistence failure for one page
\* propagates as an exception and aborts the rest of the run: no page after the
\* failing one is persisted and no counts are returned.
C9_SaveFailureAborts ==
    \A p \in DOMAIN runs :
        LET r == runs[p]
            failures == EventsAt(r.log, {"failed", "raise"}, r.tractate)
                           \cap {i \in 1..Len(r.log) : r.log[i].ref # <<>>}
        IN  (r.entry = "single" /\ failures # {}) =>
                /\ \A i \in failures : \A j \in (i + 1)..Len(r.log) : r.log[j].ev # "save_begin"
                /\ r.pc = "idle" => r.outcome.exc # "none"

\* C9 amended: in a single-tractate run a persistence failure that
\* save_sugya_to_database reports as False (a failing query) is counted in
\* failed, and the run goes on with the next page and returns its counts, with
\* saved + failed = total_extracted; only an exception that escapes
\* save_sugya_to_database (raised while the session is opened) or the fetch
\* propagates to the caller, and then nothing more is persisted and no counts
\* are returned.
C9_SaveFailureCountedOrRaised ==
    \A p \in DOMAIN runs :
        RunDone(p, "single") =>
            LET r == runs[p]
                log == r.log
            IN  /\ \A i \in EventsAt(log, {"raise"}, r.tractate) :
                      /\ log[i].at \in {"fetch", "save_open"}
                      /\ i = Len(log)
                      /\ r.outcome.exc # "none"
                /\ \A i \in EventsAt(log, {"failed"}, r.tractate) :
                      log[i].at \in {"save_sugya", "save_link", "save_node", "save_edge"}
                /\ r.outcome.exc # "none" => EventsAt(log, {"raise"}, r.tractate) # {}
                /\ r.outcome.exc = "none" =>
                      LET stats == r.outcome.val
                      IN  /\ stats.total_extracted = Len(r.sugyot)
                          /\ stats.saved + stats.failed = stats.total_extracted
                          /\ stats.failed = Cardinality(EventsAt(log, {"failed"}, r.tractate))
                          /\ stats.saved = Cardinality(EventsAt(log, {"saved"}, r.tractate))
                          /\ RefsOf(log, "save_begin", r.tractate)
                                = [k \in 1..Len(r.sugyot) |-> r.sugyot[k].ref]

C9_Witness ==
    \E p \in DOMAIN runs :
        /\ RunDone(p, "single")
        /\ runs[p].outcome.exc = "none"
        /\ runs[p].outcome.val.total_extracted = 2
        /\ runs[p].outcome.val.failed = 1
        /\ runs[p].outcome.val.saved = 1
        /\ runs[p].log[Len(runs[p].log)].ev = "saved"

\* C10 as stated: the persistence of page group N completes (or fails) before
\* the analysis of page group N+1 begins: between two analyses of one run lies
\* the end of the persistence of the earlier page.
C10_PersistBeforeNextAnalysis ==
    \A p \in DOMAIN runs :
        LET log == runs[p].log
        IN  \A i \in 1..Len(log) : \A j \in (i + 1)..Len(log) :
                (log[i].ev = "analyze" /\ log[j].ev = "analyze"
                     /\ log[i].tractate = log[j].tractate) =>
                    \E m \in (i + 1)..(j - 1) :
                        /\ log[m].ev \in {"saved", "failed", "raise"}
                        /\ log[m].ref = log[i].ref

\* C10 amended: within one run over a tractate every page group is analysed
\* before the first one is persisted: no analysis follows the start of a
\* persistence; the persistences are sequential, each one ending (saved, failed
\* or raised) before the next begins; and a run that returns has analysed the
\* page groups in their order and then persisted the analyses in the same order.
C10_AnalysesPrecedeSaves ==
    \A p \in DOMAIN runs :
        LET r == runs[p]
            log == r.log
        IN  /\ \A i \in 1..Len(log) : \A j \in (i + 1)..Len(log) :
                  (log[i].ev = "save_begin" /\ log[i].tractate = log[j].tractate) =>
                      log[j].ev # "analyze"
            /\ \A i \in 1..Len(log) :
                  (log[i].ev = "save_begin" /\ i < Len(log)) =>
                      /\ log[i + 1].ev \in {"saved", "failed", "raise"}
                      /\ log[i + 1].ref = log[i].ref
            /\ (RunDone(p, "single") /\ r.outcome.exc = "none") =>
                  /\ RefsOf(log, "analyze", r.tractate)
                        = [k \in 1..Len(r.pages) |-> r.pages[k].page_ref]
                  /\ RefsOf(log, "save_begin", r.tractate) = RefsOf(log, "analyze", r.tractate)

C10_Witness ==
    \E p \in DOMAIN runs :
        /\ RunDone(p, "single")
        /\ runs[p].outcome.exc = "none"
        /\ Len(runs[p].pages) = 2
        /\ Len(runs[p].log) = 6
        /\ runs[p].log[2].ev = "analyze"
        /\ runs[p].log[3].ev = "save_begin"
        /\ runs[p].log[6].ev = "saved"

\* what the fetch of the run of caller p returns when the store answers
FetchedBy(p) == FetchTexts(texts, runs[p].tractate, runs[p].start_page, runs[p].limit)

\* no unit of the sequence carries a page token
NoPageToken(fetched) == \A k \in 1..Len(fetched) : ~HasPageToken(fetched[k].id)

\* C14: when the fetch returns no text, or texts of which none carries a page
\* token, the single-tractate run ends normally: it raises nothing, makes no
\* persistence call (it never opens a session to save and the graph stays as it
\* was) and reports total_extracted = 0, saved = 0 and failed = 0.
C14_EmptyRunEndsNormally ==
    \A p \in DOMAIN runs :
        LET r == runs[p]
        IN  (r.entry = "single" /\ NoPageToken(FetchedBy(p))
                 /\ EventsAt(r.log, {"raise"}, r.tractate) = {}) =>
                /\ r.pc \in {"fetch", "save_loop", "idle"}
                /\ graph = EmptyGraph
                /\ EventsAt(r.log, {"analyze", "save_begin"}, r.tractate) = {}
                /\ r.pc = "idle" =>
                      /\ r.outcome.exc = "none"
                      /\ r.outcome.val.total_extracted = 0
                      /\ r.outcome.val.saved = 0
                      /\ r.outcome.val.failed = 0

\* the fetch returned a text without a page token and the run has returned
C14_Witness ==
    \E p \in DOMAIN runs :
        /\ RunDone(p, "single")
        /\ Len(FetchedBy(p)) = 1
        /\ NoPageToken(FetchedBy(p))
        /\ runs[p].outcome.exc = "none"
        /\ runs[p].outcome.val.total_extracted = 0

\* extract_all_sugyot has its list of tractates
Discovered(p) ==
    /\ runs[p].entry = "all"
    /\ \/ runs[p].pc = "all_loop"
       \/ runs[p].pc = "idle" /\ runs[p].outcome.exc = "none"

\* the tractate names of the Text records whose id carries a page token
TractateNames(store) == {TractateToken(t) : t \in {x \in DOMAIN store : HasPageToken(x)}}

\* C13: discover_all_tractates returns exactly the distinct tractate names of
\* the Text records whose id carries a page token, without duplicates and in
\* lexical order, and extract_all_sugyot processes the tractates in that order;
\* for "Berakhot 2a:1", "Berakhot 3b:1", "Shabbat 10a:1": Berakhot, Shabbat.
C13_DiscoveryExactSorted ==
    \A p \in DOMAIN runs :
        Discovered(p) =>
            LET tractates == runs[p].tractates
            IN  /\ {tractates[k] : k \in 1..Len(tractates)} = TractateNames(texts)
                /\ \A k \in 1..(Len(tractates) - 1) : StrLess(tractates[k], tractates[k + 1])
                /\ \A i \in 1..Len(runs[p].log) : \A j \in (i + 1)..Len(runs[p].log) :
                      (runs[p].log[i].ev = "tractate" /\ runs[p].log[j].ev = "tractate") =>
                          StrLess(runs[p].log[i].tractate, runs[p].log[j].tractate)
                /\ texts = DiscoveryTexts => tractates = <<Berakhot, Shabbat>>

(* ------------------------------------------------------------------ *)
(* Two runs at once: background tasks of POST /sugya/extract/{tractate}*)
(* ------------------------------------------------------------------ *)

\* the first pass of _create_dialectic_nodes from node k on, without a failure
RECURSIVE FirstPass(_, _, _, _)
FirstPass(G, ref, nodes, k) ==
    IF k > Len(nodes) THEN G
    ELSE FirstPass(MergeDialecticNode(G, ref, FullId(ref, nodes[k].id),
                                      DialecticProps(nodes[k], k)),
                   ref, nodes, k + 1)

\* the second pass of _create_dialectic_nodes from node k on, without a failure
RECURSIVE SecondPass(_, _, _, _)
SecondPass(G, ref, nodes, k) ==
    IF k > Len(nodes) THEN G
    ELSE SecondPass(IF HasParent(nodes[k])
                    THEN LinkLeadsTo(G, FullId(ref, nodes[k].parent_id), FullId(ref, nodes[k].id))
                    ELSE G,
                    ref, nodes, k + 1)

\* save_sugya_to_database(sugya_data) run alone and without a failure
SaveSugyaToDatabase(G, store, d) ==
    LET G1 == MergeSugya(G, d.ref, d.title, d.summary, Get(d, "theme", ""),
                         Get(d, "main_question", <<>>))
        G2 == LinkTexts(G1, store, d.ref)
        nodes == Get(d, "dialectic_nodes", <<>>)
    IN  IF Len(nodes) > 0 THEN SecondPass(FirstPass(G2, d.ref, nodes, 1), d.ref, nodes, 1)
        ELSE G2

\* the save loop of extract_and_save_all run alone and without a failure
RECURSIVE SaveAll(_, _, _)
SaveAll(G, store, sugyot) ==
    IF sugyot = <<>> THEN G
    ELSE SaveAll(SaveSugyaToDatabase(G, store, Head(sugyot)), store, Tail(sugyot))

\* two background tasks, each running extract_and_save_all; the store answers
\* every query
\* a store whose tractates have one page each
OnePageTexts ==
    (Berakhot2a \o Colon1) :> <<"y">>
    @@ (Berakhot2a \o Colon2) :> <<"w", "?">>
    @@ (Eruvin2a \o Colon1) :> <<"z">>

ConcInit ==
    /\ AnalyzerIdle
    /\ client \in BOOLEAN
    /\ texts \in IF client THEN {OnePageTexts} ELSE {OnePageTexts, RunTexts}
    /\ graph = EmptyGraph
    /\ runs = <<IdleRun, IdleRun>>
    /\ faults = MaxFaults
    /\ history = <<>>
    /\ DriverUnused
    /\ UsersUnused

\* POST /sugya/extract/{tractate}: the task is added with the request's
\* arguments; the requests name the same tractate
TaskAdded ==
    \E p \in DOMAIN runs : \E tractate \in {Berakhot, Eruvin} :
        /\ runs[p].entry = "none"
        /\ \A q \in DOMAIN runs : runs[q].entry # "none" => runs[q].tractate = tractate
        /\ CallSingle(p, tractate, Page2a, DefaultLimit)

ConcNext ==
    \/ TaskAdded \/ TextsFetched \/ PageAnalyzed \/ SaveLoopTurned \/ SaveNext

SpecConc == ConcInit /\ [][ConcNext]_vars

(* ------------------------------------------------------------------ *)
(* Properties of two runs at once                                      *)
(* ------------------------------------------------------------------ *)

\* the graph without what datetime() wrote
Timeless(G) ==
    [ sugya |-> {[k \in DOMAIN n \ {"created_at", "updated_at"} |-> n[k]] : n \in G.sugya},
      dnode |-> G.dnode, contains_text |-> G.contains_text,
      has_dialectic_node |-> G.has_dialectic_node, leads_to |-> G.leads_to,
      next_id |-> G.next_id ]

\* no two edges of the set join the same pair of records
NoDoubleEdge(edges) ==
    \A e \in edges : \A f \in edges : (e.src = f.src /\ e.dst = f.dst) => e = f

\* both runs went over the same tractate, made the same analyses and returned
SameRunsDone ==
    /\ RunDone(1, "single") /\ RunDone(2, "single")
    /\ runs[1].tractate = runs[2].tractate
    /\ runs[1].sugyot = runs[2].sugyot
    /\ runs[1].outcome.exc = "none" /\ runs[2].outcome.exc = "none"

\* C11: two runs over the same tractate that make the same analyses, their
\* queries interleaved in any order (each query taking effect at once), leave
\* the store as one run alone leaves it: one Sugya record per ref, one
\* DialecticNode per "{ref}-{local_id}", no edge doubled and none missing.
C11_ConcurrentRunsAsOne ==
    SameRunsDone =>
        LET sugyot == runs[1].sugyot
            alone == SaveAll(EmptyGraph, texts, sugyot)
        IN  /\ Timeless(graph) = Timeless(alone)
            /\ \A k \in 1..Len(sugyot) :
                  /\ Cardinality({n \in graph.sugya : n.ref = sugyot[k].ref}) = 1
                  /\ \A j \in 1..Len(sugyot[k].dialectic_nodes) :
                        Cardinality({d \in graph.dnode :
                            d.id = FullId(sugyot[k].ref, sugyot[k].dialectic_nodes[j].id)}) = 1
            /\ NoDoubleEdge(graph.contains_text)
            /\ NoDoubleEdge(graph.has_dialectic_node)
            /\ NoDoubleEdge(graph.leads_to)

C11_Witness ==
    /\ SameRunsDone
    /\ Len(runs[1].sugyot) = 2
    /\ runs[1].log[Len(runs[1].log)].ev = "saved"
    /\ runs[2].log[Len(runs[2].log)].ev = "saved"
    /\ graph.leads_to # {}
    /\ \E i \in 1..Len(history) : history[i].graph # graph

(* ------------------------------------------------------------------ *)
(* database.py: get_driver and close_driver called from threads        *)
(* ------------------------------------------------------------------ *)

MaxGets == 2

\* a thread starts a call of get_driver: `if not driver`
GetDriverCheck(t) ==
    /\ db_threads[t].pc = "idle"
    /\ Len(db_threads[t].got) < MaxGets
    /\ db_threads' = [db_threads EXCEPT ![t].pc = IF driver = None_ THEN "construct" ELSE "return",
                                        ![t].outcome = Pending]
    /\ UNCHANGED <<driver, db_ghost, an_vars, store_vars, users_vars>>

\* driver = GraphDatabase.driver(...), or the constructor raises and the
\* except clause raises again
GetDriverConstruct(t) ==
    /\ db_threads[t].pc = "construct"
    /\ \/ /\ driver' = <<"driver", db_ghost.made + 1>>
          /\ db_ghost' = [db_ghost EXCEPT !.made = @ + 1]
          /\ db_threads' = [db_threads EXCEPT ![t].pc = "test"]
       \/ /\ db_ghost.failures < MaxFaults
          /\ db_ghost' = [db_ghost EXCEPT !.failures = @ + 1]
          /\ db_threads' = [db_threads EXCEPT ![t].pc = "idle",
                                              ![t].outcome = Raised("ServiceUnavailable"),
                                              ![t].got = Append(@, None_)]
          /\ UNCHANGED driver
    /\ UNCHANGED <<an_vars, store_vars, users_vars>>

\* the test query `RETURN 1`, or it raises and the except clause raises again
\* (the global keeps the driver that was assigned)
GetDriverTest(t) ==
    /\ db_threads[t].pc = "test"
    /\ \/ /\ db_threads' = [db_threads EXCEPT ![t].pc = "return"]
          /\ db_ghost' = [db_ghost EXCEPT !.verified = @ \cup ({driver} \ {None_})]
       \/ /\ db_ghost.failures < MaxFaults
          /\ db_ghost' = [db_ghost EXCEPT !.failures = @ + 1]
          /\ db_threads' = [db_threads EXCEPT ![t].pc = "idle",
                                              ![t].outcome = Raised("ServiceUnavailable"),
                                              ![t].got = Append(@, None_)]
    /\ UNCHANGED <<driver, an_vars, store_vars, users_vars>>

\* return driver: the global as it is now
GetDriverReturn(t) ==
    /\ db_threads[t].pc = "return"
    /\ db_threads' = [db_threads EXCEPT ![t].pc = "idle", ![t].outcome = Returned(driver),
                                        ![t].got = Append(@, driver)]
    /\ UNCHANGED <<driver, db_ghost, an_vars, store_vars, users_vars>>

\* close_driver: `if driver:`
CloseDriverCheck(t) ==
    /\ db_threads[t].pc = "idle"
    /\ db_ghost.closed < MaxCalls
    /\ db_threads' = [db_threads EXCEPT ![t].pc = IF driver = None_ THEN "idle" ELSE "close"]
    /\ db_ghost' = [db_ghost EXCEPT !.closed = @ + 1]
    /\ UNCHANGED <<driver, an_vars, store_vars, users_vars>>

\* driver.close(); driver = None
CloseDriverClose(t) ==
    /\ db_threads[t].pc = "close"
    /\ driver' = None_
    /\ db_threads' = [db_threads EXCEPT ![t].pc = "idle"]
    /\ UNCHANGED <<db_ghost, an_vars, store_vars, users_vars>>

\* the pipeline's variables while database.py is exercised
DriverInit ==
    /\ AnalyzerIdle
    /\ texts = <<>>
    /\ graph = EmptyGraph
    /\ client = FALSE
    /\ runs = <<>>
    /\ faults = 0
    /\ history = <<>>
    /\ driver = None_
    /\ db_threads = <<IdleThread, IdleThread>>
    /\ db_ghost = [made |-> 0, closed |-> 0, failures |-> 0, verified |-> {}]
    /\ UsersUnused

DriverChecked == \E t \in DOMAIN db_threads : GetDriverCheck(t)
DriverConstructed == \E t \in DOMAIN db_threads : GetDriverConstruct(t)
DriverTested == \E t \in DOMAIN db_threads : GetDriverTest(t)
DriverReturned == \E t \in DOMAIN db_threads : GetDriverReturn(t)
CloseChecked == \E t \in DOMAIN db_threads : CloseDriverCheck(t)
DriverClosed == \E t \in DOMAIN db_threads : CloseDriverClose(t)

DriverNext ==
    \/ DriverChecked \/ DriverConstructed \/ DriverTested \/ DriverReturned
    \/ CloseChecked \/ DriverClosed

SpecDriver == DriverInit /\ [][DriverNext]_vars

\* the drivers the calls of get_driver have handed back
HandedBack ==
    UNION {{db_threads[t].got[k] : k \in 1..Len(db_threads[t].got)} : t \in DOMAIN db_threads}
        \ {None_}

\* C15: from the first get_driver call until close_driver, for any interleaving
\* of concurrent callers, the driver is constructed at most once and every
\* get_driver call that returns hands back that same instance.
C15_DriverSingleton ==
    db_ghost.closed = 0 =>
        /\ db_ghost.made <= 1
        /\ Cardinality(HandedBack) <= 1

(* ------------------------------------------------------------------ *)
(* The HTTP routes of api/connections.py and api/sugya.py              *)
(*                                                                     *)
(* A path is the sequence of its segments.  A route is matched when    *)
(* every literal segment of its pattern equals the path's segment and  *)
(* every parameter stands against a non-empty segment; the routes are  *)
(* tried in the order of their declaration.                            *)
(* ------------------------------------------------------------------ *)

SegApi == <<"a","p","i">>
SegConnections == <<"c","o","n","n","e","c","t","i","o","n","s">>
SegGraph == <<"g","r","a","p","h">>
SegRelationshipTypes ==
    <<"r","e","l","a","t","i","o","n","s","h","i","p","-","t","y","p","e","s">>
SegStats == <<"s","t","a","t","s">>
SegSugya == <<"s","u","g","y","a">>
SegList == <<"l","i","s","t">>
SegAvailable == <<"a","v","a","i","l","a","b","l","e">>
SegFlow == <<"f","l","o","w">>
SegExtract == <<"e","x","t","r","a","c","t">>
SegExtractSync == SegExtract \o <<"-","s","y","n","c">>
SegExtractAll == SegExtract \o <<"-","a","l","l">>
SegExtractAllSync == SegExtractAll \o <<"-","s","y","n","c">>
NonExistent == <<"N","o","n","E","x","i","s","t","e","n","t">>

Lit(seg) == [kind |-> "lit", seg |-> seg, name |-> ""]
Param(name) == [kind |-> "param", seg |-> <<>>, name |-> name]
Route(method, pattern, endpoint) ==
    [method |-> method, pattern |-> pattern, endpoint |-> endpoint]

\* the routes of api/connections.py in the order of their decorators
ConnectionsRoutes ==
    << Route("GET", <<Lit(SegConnections), Param("node_id")>>, "get_connections"),
       Route("GET", <<Lit(SegConnections), Lit(SegGraph), Param("node_id")>>, "get_graph_data"),
       Route("GET", <<Lit(SegConnections), Lit(SegRelationshipTypes)>>, "get_relationship_types"),
       Route("GET", <<Lit(SegConnections), Lit(SegStats)>>, "get_graph_stats") >>

\* the routes of api/sugya.py in the order of their decorators
SugyaRoutes ==
    << Route("GET", <<Lit(SegSugya), Lit(SegList), Lit(SegAvailable)>>, "list_available_sugyot"),
       Route("GET", <<Lit(SegSugya), Param("ref")>>, "get_sugya_structure"),
       Route("GET", <<Lit(SegSugya), Param("ref"), Lit(SegFlow)>>, "get_sugya_flow"),
       Route("POST", <<Lit(SegSugya), Lit(SegExtract), Param("tractate")>>,
             "extract_sugyot_from_tractate"),
       Route("POST", <<Lit(SegSugya), Lit(SegExtractSync), Param("tractate")>>,
             "extract_sugyot_sync"),
       Route("POST", <<Lit(SegSugya), Lit(SegExtractAll)>>, "extract_all_sugyot"),
       Route("POST", <<Lit(SegSugya), Lit(SegExtractAllSync)>>, "extract_all_sugyot_sync") >>

\* app.include_router(router, prefix="/api")
Prefixed(routes) ==
    [k \in 1..Len(routes) |->
        [routes[k] EXCEPT !.pattern = <<Lit(SegApi)>> \o routes[k].pattern]]

\* the routes of the app: connections is included before sugya
AppRoutes == Prefixed(ConnectionsRoutes) \o Prefixed(SugyaRoutes)

\* the path matches the pattern of the route
PathMatches(route, path) ==
    /\ Len(route.pattern) = Len(path)
    /\ \A i \in 1..Len(path) :
          IF route.pattern[i].kind = "param" THEN path[i] # <<>>
          ELSE route.pattern[i].seg = path[i]

\* the index of the first route that matches path and method; 0 if none
Dispatch(routes, method, path) ==
    LET full == {k \in 1..Len(routes) :
                    PathMatches(routes[k], path) /\ routes[k].method = method}
    IN  IF full = {} THEN 0 ELSE CHOOSE k \in full : \A j \in full : k <= j

\* the value of the path parameter of the route
PathParam(route, path) ==
    path[CHOOSE i \in 1..Len(path) : route.pattern[i].kind = "param"]

\* raise HTTPException(status_code=status)
RaisedHttp(status) == [exc |-> "HTTPException", val |-> status]

\* LIMIT 20 of texts_query
StructureLimit == 20

\* texts[:5] of _build_dialectic_tree
TreeLimit == 5

\* texts_query of SugyaManager.get_sugya_structure
StructureTexts(store, sugya_ref) ==
    Prefix(SortStrings({t \in DOMAIN store : Contains(t, sugya_ref)}), StructureLimit)

\* SugyaManager.get_sugya_structure when it finds texts: title and summary of
\* the Sugya record if there is one, and the ids of the root's children
SugyaStructureOf(G, store, sugya_ref) ==
    LET found == {n \in G.sugya : n.ref = sugya_ref}
        node == CHOOSE n \in found : TRUE
    IN  [ ref |-> sugya_ref,
          title |-> IF found # {} THEN node.title ELSE DiscussionOn \o sugya_ref,
          summary |-> IF found # {} THEN node.summary ELSE TalmudicDiscussionFrom \o sugya_ref,
          children |-> Prefix(StructureTexts(store, sugya_ref), TreeLimit) ]

\* the try block of get_sugya_structure (api/sugya.py)
GetSugyaStructureTry(G, store, ref, failed) ==
    IF failed THEN Raised("ServiceUnavailable")
    ELSE IF Len(StructureTexts(store, ref)) = 0 THEN RaisedHttp(404)
    ELSE Returned(SugyaStructureOf(G, store, ref))

\* a handler with the generic clause only
GetSugyaStructureExceptGeneric(try) ==
    IF try.exc = "none" THEN try
    ELSE IF ExceptException(try.exc) THEN RaisedHttp(500)
    ELSE try

\* `except HTTPException: raise`, then `except Exception` (api/sugya.py)
GetSugyaStructureExcept(try) ==
    IF try.exc = "none" THEN try
    ELSE IF try.exc = "HTTPException" THEN try
    ELSE IF ExceptException(try.exc) THEN RaisedHttp(500)
    ELSE try

\* the rows of MATCH (n)-[r]-(m) WHERE n.id = $node_id
ConnectionRows(G, node_id) ==
    LET ids == {d.nid : d \in {x \in G.dnode : x.id = node_id}}
    IN  {e \in G.contains_text : e.dst = node_id}
            \cup {e \in G.has_dialectic_node : e.dst \in ids}
            \cup {e \in G.leads_to : e.src \in ids \/ e.dst \in ids}

\* the try block of get_connections
GetConnectionsTry(G, node_id, failed) ==
    IF failed THEN Raised("ServiceUnavailable")
    ELSE IF ConnectionRows(G, node_id) = {} THEN RaisedHttp(404)
    ELSE Returned([total |-> Cardinality(ConnectionRows(G, node_id))])

\* `except Exception` alone (api/connections.py): HTTPException is an Exception
GetConnectionsExcept(try) ==
    IF try.exc = "none" THEN try
    ELSE IF ExceptException(try.exc) THEN RaisedHttp(500)
    ELSE try

\* CALL db.relationshipTypes()
RelationshipTypes(G) ==
    {"CONTAINS_TEXT" : e \in G.contains_text}
        \cup {"HAS_DIALECTIC_NODE" : e \in G.has_dialectic_node}
        \cup {"LEADS_TO" : e \in G.leads_to}

\* the try block of get_relationship_types
GetRelationshipTypesTry(G, failed) ==
    IF failed THEN Raised("ServiceUnavailable")
    ELSE Returned([relationship_types |-> RelationshipTypes(G),
                   total |-> Cardinality(RelationshipTypes(G))])

\* the try block of get_graph_stats
GetGraphStatsTry(G, store, failed) ==
    IF failed THEN Raised("ServiceUnavailable")
    ELSE Returned([ nodes |-> Cardinality(DOMAIN store) + Cardinality(G.sugya)
                                 + Cardinality(G.dnode),
                    relationships |-> Cardinality(G.contains_text)
                                         + Cardinality(G.has_dialectic_node)
                                         + Cardinality(G.leads_to),
                    types |-> RelationshipTypes(G) ])

\* the number of entries of the static list get_sugya_flow returns
FlowLength == 6

\* what the endpoint raises or returns for the request; the endpoints that no
\* request of the model reaches return their name
Endpoint(endpoint, param, G, store, failed) ==
    CASE endpoint = "get_sugya_structure" ->
            GetSugyaStructureExcept(GetSugyaStructureTry(G, store, param, failed))
      [] endpoint = "get_connections" ->
            GetConnectionsExcept(GetConnectionsTry(G, param, failed))
      [] endpoint = "get_relationship_types" ->
            GetConnectionsExcept(GetRelationshipTypesTry(G, failed))
      [] endpoint = "get_graph_stats" ->
            GetConnectionsExcept(GetGraphStatsTry(G, store, failed))
      [] endpoint = "get_sugya_flow" -> Returned([total |-> FlowLength])
      [] OTHER -> Returned([endpoint |-> endpoint])

\* the response to what the endpoint returned or raised
Response(endpoint, result, failed) ==
    [ endpoint |-> endpoint, failed |-> failed,
      status |-> IF result.exc = "none" THEN 200
                 ELSE IF result.exc = "HTTPException" THEN result.val
                 ELSE 500 ]

\* a GET request arrives
ApiRequest(p, path) ==
    /\ runs[p].pc = "idle"
    /\ Len(history) < MaxCalls
    /\ Commit(p, [IdleRun EXCEPT !.entry = "request", !.pc = "dispatch",
                                 !.data = [method |-> "GET", path |-> path, route |-> 0]],
              graph, faults)

\* the router picks the route, or answers 404
ApiDispatch(p) ==
    LET r == runs[p]
        k == Dispatch(AppRoutes, r.data.method, r.data.path)
    IN  /\ r.pc = "dispatch"
        /\ Commit(p, IF k = 0
                     THEN [r EXCEPT !.pc = "idle",
                                    !.outcome = Returned(Response("none", RaisedHttp(404), FALSE))]
                     ELSE [r EXCEPT !.pc = "handle", !.data.route = k],
                  graph, faults)

\* the endpoint runs: the store answers its queries, or fails
ApiHandle(p) ==
    LET r == runs[p]
        route == AppRoutes[r.data.route]
        param == IF \E i \in 1..Len(route.pattern) : route.pattern[i].kind = "param"
                 THEN PathParam(route, r.data.path) ELSE <<>>
    IN  /\ r.pc = "handle"
        /\ \/ Commit(p, [r EXCEPT !.pc = "idle",
                           !.outcome = Returned(Response(route.endpoint,
                               Endpoint(route.endpoint, param, graph, texts, FALSE), FALSE))],
                     graph, faults)
           \/ /\ faults < MaxFaults
              /\ route.endpoint # "get_sugya_flow"
              /\ Commit(p, [r EXCEPT !.pc = "idle",
                              !.outcome = Returned(Response(route.endpoint,
                                  Endpoint(route.endpoint, param, graph, texts, TRUE), TRUE))],
                        graph, faults + 1)

\* the paths requested
RequestPaths ==
    { <<SegApi, SegConnections, SegRelationshipTypes>>,
      <<SegApi, SegConnections, SegStats>>,
      <<SegApi, SegConnections, Berakhot2a \o Colon1>>,
      <<SegApi, SegSugya, NonExistent>>,
      <<SegApi, SegSugya, Berakhot2a>>,
      <<SegApi, SegSugya, Berakhot2a, SegFlow>>,
      <<SegApi, SegStats>> }

Requested == \E p \in DOMAIN runs : \E path \in RequestPaths : ApiRequest(p, path)
Dispatched == \E p \in DOMAIN runs : ApiDispatch(p)
Handled == \E p \in DOMAIN runs : ApiHandle(p)

ApiNext == Requested \/ Dispatched \/ Handled \/ DirectCreate \/ CreateNext

SpecApi == Init /\ [][ApiNext]_vars

(* ------------------------------------------------------------------ *)
(* Properties of the routes                                            *)
(* ------------------------------------------------------------------ *)

\* call i of the history was a GET of the path, answered by a response
Answered(i, path) ==
    /\ history[i].entry = "request"
    /\ history[i].data.path = path

\* C16: GET /sugya/{ref} answers 404 exactly when no Text id contains ref as a
\* substring (the store answering its queries; a store failure gives 500), as
\* for "NonExistent"; the generic exception clause does not turn the 404 into
\* a 500.
C16_SugyaNotFoundIs404 ==
    \A i \in 1..Len(history) :
        (history[i].entry = "request" /\ Len(history[i].data.path) = 3
             /\ history[i].data.path[2] = SegSugya) =>
            LET ref == history[i].data.path[3]
                response == history[i].outcome.val
                absent == \A t \in DOMAIN texts : ~HoldsRef(t, ref)
            IN  /\ response.endpoint = "get_sugya_structure"
                /\ response.status \in {200, 404, 500}
                /\ response.failed => response.status = 500
                /\ ~response.failed => (response.status = 404 <=> absent)
                /\ ~response.failed => (response.status = 200 <=> ~absent)

C16_Witness ==
    \E i \in 1..Len(history) :
        /\ Answered(i, <<SegApi, SegSugya, NonExistent>>)
        /\ history[i].outcome.val.endpoint = "get_sugya_structure"
        /\ ~history[i].outcome.val.failed
        /\ history[i].outcome.val.status = 404

\* C17: GET /api/connections/relationship-types is dispatched to
\* get_relationship_types and GET /api/connections/stats to get_graph_stats,
\* each answering 200 when the store is reachable; neither is captured by
\* /connections/{node_id}.
C17_LiteralRoutesReached ==
    \A i \in 1..Len(history) :
        /\ Answered(i, <<SegApi, SegConnections, SegRelationshipTypes>>) =>
              /\ history[i].outcome.val.endpoint = "get_relationship_types"
              /\ ~history[i].outcome.val.failed => history[i].outcome.val.status = 200
        /\ Answered(i, <<SegApi, SegConnections, SegStats>>) =>
              /\ history[i].outcome.val.endpoint = "get_graph_stats"
              /\ ~history[i].outcome.val.failed => history[i].outcome.val.status = 200

(* ------------------------------------------------------------------ *)
(* _group_texts_by_page called on its own, twice on the same list      *)
(* ------------------------------------------------------------------ *)

\* the number of text units of a list
MaxUnits == 3

Zohar12a1 == <<"Z","o","h","a","r"," ","1",":","2","a",":","1">>
RashiOnBerakhot2a1 == <<"R","a","s","h","i"," ","o","n"," ">> \o Berakhot2a \o Colon1

\* the ids of the text units that are grouped
UnitIds ==
    { Berakhot2a \o Colon1, Berakhot2a \o <<":", "2">>, Berakhot \o <<" ", "2", "b", ":", "1">>,
      Shabbat2a \o Colon1, Genesis11, RashiOnBerakhot2a1, Zohar12a1 }

\* the lists of at most n text units with different ids, in any order
RECURSIVE UnitLists(_)
UnitLists(n) ==
    IF n = 0 THEN {<<>>}
    ELSE LET shorter == UnitLists(n - 1)
         IN  shorter \cup
             UNION { { Append(q, [id |-> x, content_he |-> <<"x">>]) :
                         x \in UnitIds \ {q[k].id : k \in 1..Len(q)} } :
                     q \in {r \in shorter : Len(r) = n - 1} }

GroupInit ==
    /\ AnalyzerIdle
    /\ texts = <<>>
    /\ graph = EmptyGraph
    /\ client = FALSE
    /\ runs \in { <<[IdleRun EXCEPT !.entry = "group", !.pc = "group", !.data = f]>> :
                    f \in UnitLists(MaxUnits) }
    /\ faults = 0
    /\ history = <<>>
    /\ DriverUnused
    /\ UsersUnused

\* pages = self._group_texts_by_page(texts)
Group(p) ==
    /\ runs[p].pc = "group"
    /\ runs' = [runs EXCEPT ![p].pc = "regroup", ![p].pages = GroupTextsByPage(runs[p].data)]
    /\ UNCHANGED <<texts, graph, client, faults, history, an_vars, db_vars, users_vars>>

\* the same list grouped a second time
Regroup(p) ==
    /\ runs[p].pc = "regroup"
    /\ runs' = [runs EXCEPT ![p].pc = "grouped", ![p].sugyot = GroupTextsByPage(runs[p].data)]
    /\ UNCHANGED <<texts, graph, client, faults, history, an_vars, db_vars, users_vars>>

GroupedOnce == \E p \in DOMAIN runs : Group(p)
GroupedTwice == \E p \in DOMAIN runs : Regroup(p)

GroupNext == GroupedOnce \/ GroupedTwice

SpecGroup == GroupInit /\ [][GroupNext]_vars

(* ------------------------------------------------------------------ *)
(* Properties of the grouping                                          *)
(* ------------------------------------------------------------------ *)

\* where the first page token of the id starts
FirstPageTokenStart(s) ==
    CHOOSE j \in 1..Len(s) : PageTokenAt(s, j) /\ \A k \in 1..(j - 1) : ~PageTokenAt(s, k)

\* the run of letters that ends right before position i, whitespace skipped
LettersBefore(s, i) ==
    LET ends == {w \in 1..(i - 1) : ~IsSpace(s[w]) /\ \A k \in (w + 1)..(i - 1) : IsSpace(s[k])}
    IN  IF ends = {} THEN <<>>
        ELSE LET w == CHOOSE x \in ends : TRUE
                 from == {a \in 1..w : \A k \in a..w : IsLetter(s[k])}
             IN  IF from = {} THEN <<>>
                 ELSE SubSeq(s, CHOOSE a \in from : \A b \in from : a <= b, w)

\* the leftmost run of letters that whitespace separates from a page token,
\* "Unknown" if the id has none
LettersSpacedFromToken(s) ==
    LET at == {i \in 1..Len(s) :
                 \E e \in i..Len(s) : \E w \in (e + 2)..Len(s) :
                    /\ \A k \in i..e : IsLetter(s[k])
                    /\ \A k \in (e + 1)..(w - 1) : IsSpace(s[k])
                    /\ PageTokenAt(s, w)}
    IN  IF at = {} THEN <<"U","n","k","n","o","w","n">>
        ELSE LET i == CHOOSE x \in at : \A y \in at : x <= y
                 e == CHOOSE x \in i..Len(s) :
                         (\A k \in i..x : IsLetter(s[k])) /\ ~IsLetter(s[x + 1])
             IN  SubSeq(s, i, e)

\* the places <<k, j>> of the groups where the unit stands
PlacesOf(pages, unit) ==
    UNION { { <<k, j>> : j \in {x \in 1..Len(pages[k].texts) : pages[k].texts[x] = unit} } :
            k \in 1..Len(pages) }

\* the position of the unit in the list
IndexIn(fetched, unit) == CHOOSE i \in 1..Len(fetched) : fetched[i] = unit

\* every unit with a page token stands in exactly one group, the others in
\* none; the groups have different keys; each group keeps the input order
GroupsPartition(fetched, pages) ==
    /\ \A i \in 1..Len(fetched) :
          Cardinality(PlacesOf(pages, fetched[i]))
             = IF HasPageToken(fetched[i].id) THEN 1 ELSE 0
    /\ \A k \in 1..Len(pages) :
          /\ Len(pages[k].texts) >= 1
          /\ \A j \in 1..Len(pages[k].texts) :
                \E i \in 1..Len(fetched) : fetched[i] = pages[k].texts[j]
          /\ \A j1, j2 \in 1..Len(pages[k].texts) :
                j1 < j2 => IndexIn(fetched, pages[k].texts[j1]) < IndexIn(fetched, pages[k].texts[j2])
    /\ \A k1, k2 \in 1..Len(pages) : pages[k1].page_ref = pages[k2].page_ref => k1 = k2

\* C20 as stated: the grouping partitions its input, every unit with a page
\* token standing in exactly one group keyed "{tractate} {page_token}" where
\* the tractate is the run of letters immediately before that page token;
\* units without a page token stand in no group; each group keeps the input
\* order, and grouping the same list twice gives identical groups.
C20_KeyedByLettersBeforeToken ==
    \A p \in DOMAIN runs :
        (runs[p].entry = "group" /\ runs[p].pc = "grouped") =>
            LET fetched == runs[p].data
                pages == runs[p].pages
            IN  /\ GroupsPartition(fetched, pages)
                /\ runs[p].sugyot = pages
                /\ \A k \in 1..Len(pages) : \A j \in 1..Len(pages[k].texts) :
                      LET id == pages[k].texts[j].id
                      IN  pages[k].page_ref =
                             LettersBefore(id, FirstPageTokenStart(id)) \o <<" ">>
                                 \o SubSeq(id, FirstPageTokenStart(id),
                                           DigitRunEnd(id, FirstPageTokenStart(id)) + 1)

\* C20 amended: the grouping partitions its input, every unit with a page
\* token standing in exactly one group keyed "{tractate} {page_token}", where
\* page_token is the first page token of the id and the tractate is the
\* leftmost run of letters that whitespace separates from a page token, or
\* "Unknown" when the id has no such run; units without a page token stand in
\* no group; each group keeps the input order, and grouping the same list
\* twice gives identical groups.
C20_GroupingPartitions ==
    \A p \in DOMAIN runs :
        (runs[p].entry = "group" /\ runs[p].pc = "grouped") =>
            LET fetched == runs[p].data
                pages == runs[p].pages
            IN  /\ GroupsPartition(fetched, pages)
                /\ runs[p].sugyot = pages
                /\ \A k \in 1..Len(pages) : \A j \in 1..Len(pages[k].texts) :
                      LET id == pages[k].texts[j].id
                      IN  pages[k].page_ref =
                             LettersSpacedFromToken(id) \o <<" ">>
                                 \o SubSeq(id, FirstPageTokenStart(id),
                                           DigitRunEnd(id, FirstPageTokenStart(id)) + 1)

\* "Berakhot 2a:2", "Zohar 1:2a:1", "Berakhot 2a:1" grouped as "Berakhot 2a"
\* (both units, in input order) and "Unknown 2a"
C20_Witness ==
    \E p \in DOMAIN runs :
        /\ runs[p].entry = "group" /\ runs[p].pc = "grouped"
        /\ Len(runs[p].data) = 3
        /\ <<runs[p].data[1].id, runs[p].data[2].id, runs[p].data[3].id>>
              = <<Berakhot2a \o <<":", "2">>, Zohar12a1, Berakhot2a \o Colon1>>
        /\ Len(runs[p].pages) = 2
        /\ runs[p].pages[1].page_ref = Berakhot2a
        /\ runs[p].pages[1].texts = <<runs[p].data[1], runs[p].data[3]>>
        /\ runs[p].pages[2].page_ref = <<"U","n","k","n","o","w","n"," ","2","a">>
        /\ runs[p].pages[2].texts = <<runs[p].data[2]>>

(* ------------------------------------------------------------------ *)
(* Properties of the dialectic structure in the store                  *)
(* ------------------------------------------------------------------ *)

\* the graph that call i of the history started from (one caller)
GraphBefore(i) == IF i = 1 THEN EmptyGraph ELSE history[i - 1].graph

\* the LEADS_TO edges of G from a record with id `from` to a record with id `to`
LeadsToBetween(G, from, to) ==
    {e \in G.leads_to :
        /\ \E a \in G.dnode : a.nid = e.src /\ a.id = from
        /\ \E b \in G.dnode : b.nid = e.dst /\ b.id = to}

\* the nodes of the analysis that name a parent
Linked(a) == {k \in 1..Len(a.dialectic_nodes) : HasParent(a.dialectic_nodes[k])}

\* C21: every node of the analysis is upserted before any LEADS_TO edge is
\* created; after a successful save there is a LEADS_TO edge from
\* "{ref}-{parent_id}" to "{ref}-{id}" for every node whose non-empty parent_id
\* names a node of the analysis, a parent listed later included, while a
\* parent_id that names no persisted node creates no edge and no error.
C21_NodesBeforeEdges ==
    /\ \A p \in DOMAIN runs :
          runs[p].pc = "save_edge" =>
              \A k \in 1..Len(runs[p].data.dialectic_nodes) :
                  \E d \in graph.dnode :
                      d.id = FullId(runs[p].data.ref, runs[p].data.dialectic_nodes[k].id)
    /\ \A i \in 1..Len(history) :
          SavedAt(i) =>
              LET a == history[i].data
                  G == history[i].graph
                  nodes == a.dialectic_nodes
              IN  /\ \A k \in Linked(a) :
                         LET from == FullId(a.ref, nodes[k].parent_id)
                             to == FullId(a.ref, nodes[k].id)
                         IN  (\E j \in 1..Len(nodes) : nodes[j].id = nodes[k].parent_id)
                                    => LeadsToBetween(G, from, to) # {}
                  /\ \A e \in G.leads_to \ GraphBefore(i).leads_to :
                         \E k \in Linked(a) :
                             e \in LeadsToBetween(G, FullId(a.ref, nodes[k].parent_id),
                                                  FullId(a.ref, nodes[k].id))

\* a saved analysis whose node "1" names the later node "2" as parent and
\* whose last node names "9", which is no node: the edge 2 -> 1 and no other
C21_Witness ==
    \E i \in 1..Len(history) :
        /\ SavedAt(i)
        /\ history[i].data.title = <<"U">>
        /\ i = 1
        /\ LeadsToBetween(history[i].graph, FullId(Berakhot2a, <<"2">>),
                          FullId(Berakhot2a, <<"1">>)) # {}
        /\ Cardinality(history[i].graph.leads_to) = 1
        /\ ~\E d \in history[i].graph.dnode : d.id = FullId(Berakhot2a, <<"9">>)

\* the full ids the nodes of the running save name
NamedBy(r) ==
    IF r.entry # "save" \/ r.pc = "idle" THEN {}
    ELSE {FullId(r.data.ref, r.data.dialectic_nodes[k].id) :
             k \in {j \in 1..Len(r.data.dialectic_nodes) :
                       "id" \in DOMAIN r.data.dialectic_nodes[j]}}

\* C22: persistence never prunes.  No step of a save removes a Sugya record,
\* a DialecticNode record or a HAS_DIALECTIC_NODE edge, and a DialecticNode
\* record whose id the analysis being saved does not name keeps its fields; so
\* after analysis B is saved over analysis A the records of A that B lacks are
\* in place, and the DialecticNode records of a ref never shrink.
C22_NeverPrunes ==
    [][ /\ {n.nid : n \in graph.sugya} \subseteq {n.nid : n \in graph'.sugya}
        /\ \A ref \in {d.sugya_ref : d \in graph.dnode} :
              {d.nid : d \in {x \in graph.dnode : x.sugya_ref = ref}}
                 \subseteq {d.nid : d \in {x \in graph'.dnode : x.sugya_ref = ref}}
        /\ graph.has_dialectic_node \subseteq graph'.has_dialectic_node
        /\ \A d \in graph.dnode :
              (\A p \in DOMAIN runs : d.id \notin NamedBy(runs[p])) => d \in graph'.dnode
      ]_vars

\* the fallback's analysis (nodes 1..5) saved, then the reply's (nodes 1, 2)
\* for the same ref: the records of nodes 3, 4, 5 are as the first save left them
C22_Witness ==
    \E i \in 1..Len(history) :
        /\ i + 1 <= Len(history)
        /\ SavedAt(i) /\ SavedAt(i + 1)
        /\ history[i].data.ref = history[i + 1].data.ref
        /\ LocalIds(history[i].data) \ LocalIds(history[i + 1].data) # {}
        /\ \A id \in LocalIds(history[i].data) \ LocalIds(history[i + 1].data) :
              \E d \in history[i].graph.dnode :
                  /\ d.id = FullId(history[i].data.ref, id)
                  /\ d \in history[i + 1].graph.dnode
                  /\ \E e \in history[i + 1].graph.has_dialectic_node : e.dst = d.nid

(* ------------------------------------------------------------------ *)
(* _simulate_ai_analysis on long lines                                 *)
(* ------------------------------------------------------------------ *)

\* the length of the longest line
MaxLineLen == 104

\* a line of n characters without whitespace
LongLine(n) == [k \in 1..n |-> "x"]

\* a line of n characters whose character at the label budget is a space
SpacedLine(n) == [k \in 1..n |-> IF k = LabelBudget THEN " " ELSE "x"]

\* the texts of one line
LongInputs ==
    {<<LongLine(n)>> : n \in 1..MaxLineLen}
        \cup {<<SpacedLine(n)>> : n \in (LabelBudget + 1)..MaxLineLen}

LongInit ==
    /\ an_ref \in {Berakhot2a, Shabbat2a}
    /\ an_lines \in LongInputs
    /\ an_content = JoinLines(an_lines)
    /\ an_call = "none"
    /\ an_client = FALSE
    /\ an_behaviour = NotCalled
    /\ an_result = Pending
    /\ texts = <<>>
    /\ graph = EmptyGraph
    /\ client = FALSE
    /\ runs = <<>>
    /\ faults = 0
    /\ history = <<>>
    /\ DriverUnused
    /\ UsersUnused

SpecLong == LongInit /\ [][CallSimulate]_vars

\* C23: every node the fallback produces has a label of at most 80
\* characters, the ellipsis of a truncated line included, and a
\* content_preview of at most 100 characters, whatever the length of the line.
C23_LabelWithinBudget ==
    an_call = "simulate" =>
        \A k \in 1..Len(an_result.val.dialectic_nodes) :
            /\ Len(an_result.val.dialectic_nodes[k].label) <= LabelBudget
            /\ Len(an_result.val.dialectic_nodes[k].content_preview) <= PreviewBudget

(* ------------------------------------------------------------------ *)
(* Further properties of the runs                                      *)
(* ------------------------------------------------------------------ *)

\* C24: in every single-tractate run that returns, each analysed page group
\* triggered exactly one save_sugya_to_database call (the calls name the
\* analysed pages, each once and in the order of the analyses), and the counts
\* returned satisfy total_extracted = saved + failed = the number of page
\* groups analysed.
C24_OneSavePerAnalysedPage ==
    \A p \in DOMAIN runs :
        (RunDone(p, "single") /\ runs[p].outcome.exc = "none") =>
            LET r == runs[p]
                stats == r.outcome.val
                analysed == RefsOf(r.log, "analyze", r.tractate)
                begun == RefsOf(r.log, "save_begin", r.tractate)
            IN  /\ begun = analysed
                /\ \A j, k \in 1..Len(analysed) : analysed[j] = analysed[k] => j = k
                /\ Cardinality(EventsAt(r.log, {"saved", "failed"}, r.tractate)) = Len(analysed)
                /\ stats.total_extracted = Len(analysed)
                /\ stats.saved + stats.failed = Len(analysed)

\* a run over two page groups that returns with both saved
C24_Witness ==
    \E p \in DOMAIN runs :
        /\ RunDone(p, "single")
        /\ runs[p].outcome.exc = "none"
        /\ Len(RefsOf(runs[p].log, "analyze", runs[p].tractate)) = 2
        /\ Len(RefsOf(runs[p].log, "save_begin", runs[p].tractate)) = 2
        /\ runs[p].outcome.val.saved = 2
        /\ runs[p].outcome.val.failed = 0

(* ------------------------------------------------------------------ *)
(* Further properties of the routes                                    *)
(* ------------------------------------------------------------------ *)

\* C25: GET /connections/{node_id} answers 404 when the store query returns no
\* record for node_id, and answers 500 only when the store query itself raises.
C25_NoConnectionsIs404 ==
    \A i \in 1..Len(history) :
        (history[i].entry = "request"
             /\ history[i].outcome.val.endpoint = "get_connections") =>
            LET response == history[i].outcome.val
                node_id == history[i].data.path[3]
            IN  /\ (~response.failed /\ ConnectionRows(history[i].graph, node_id) = {})
                       => response.status = 404
                /\ response.status = 500 => response.failed

\* C27: when extract_and_save_all is called with tractate T and a non-empty
\* start_page P, every Sugya the run persists has ref exactly "T P": no text of
\* another page (page 12a when P is 2a) or of another tractate is fetched,
\* grouped or persisted.
C27_StartPageOnly ==
    \A p \in DOMAIN runs :
        (runs[p].entry = "single" /\ runs[p].start_page # <<>>) =>
            LET r == runs[p]
                page_ref == r.tractate \o <<" ">> \o r.start_page
            IN  /\ \A i \in 1..Len(r.log) :
                      r.log[i].ev \in {"analyze", "save_begin", "saved", "failed"}
                          => r.log[i].ref = page_ref
                /\ \A k \in 1..Len(r.pages) :
                      /\ r.pages[k].page_ref = page_ref
                      /\ \A j \in 1..Len(r.pages[k].texts) :
                            StartsWith(r.pages[k].texts[j].id, page_ref \o <<":">>)

(* ------------------------------------------------------------------ *)
(* Further properties of the store                                     *)
(* ------------------------------------------------------------------ *)

\* the LEADS_TO edge agrees with the parent_id stored on its child
AgreesWithChild(G, e) ==
    \E a \in G.dnode : \E b \in G.dnode :
        /\ a.nid = e.src /\ b.nid = e.dst
        /\ "parent_id" \in DOMAIN b
        /\ a.id = FullId(b.sugya_ref, b.parent_id)

\* C26: after any sequence of save_sugya_to_database calls for a ref, possibly
\* with different analyses, every LEADS_TO edge from p to c agrees with the
\* parent_id stored on c (p's key is "{ref}-{c.parent_id}"), so every
\* DialecticNode has at most one incoming LEADS_TO edge.  Checked for the
\* sequences of successful saves of analyses whose nodes have different ids.
C26_EdgesAgreeWithParentId ==
    \A i \in 1..Len(history) :
        (\A j \in 1..i :
            /\ SavedAt(j)
            /\ \A k1, k2 \in 1..Len(history[j].data.dialectic_nodes) :
                  history[j].data.dialectic_nodes[k1].id = history[j].data.dialectic_nodes[k2].id
                      => k1 = k2) =>
            LET G == history[i].graph
            IN  /\ \A e \in G.leads_to : AgreesWithChild(G, e)
                /\ \A d \in G.dnode :
                      Cardinality({e \in G.leads_to : e.dst = d.nid}) <= 1

\* C28: when save_sugya_to_database returns False the store holds no partial
\* result of the call: no Sugya record, DialecticNode record, or
\* CONTAINS_TEXT, HAS_DIALECTIC_NODE or LEADS_TO edge was created or modified
\* by it.
C28_FailedSaveLeavesNothing ==
    \A i \in 1..Len(history) :
        (history[i].entry = "save" /\ history[i].outcome.exc = "none"
             /\ history[i].outcome.val = FALSE) =>
            LET G0 == GraphBefore(i)
                G1 == history[i].graph
            IN  /\ G1.sugya = G0.sugya
                /\ G1.dnode = G0.dnode
                /\ G1.contains_text = G0.contains_text
                /\ G1.has_dialectic_node = G0.has_dialectic_node
                /\ G1.leads_to = G0.leads_to

(* ------------------------------------------------------------------ *)
(* Further properties of database.py                                   *)
(* ------------------------------------------------------------------ *)

\* C30: get_driver hands out a driver only after the connectivity test query
\* succeeded on it; when the driver cannot be created or the test query fails
\* the call raises and the module-level driver stays unset, so that the next
\* call attempts the connection again instead of returning the unverified
\* driver.
C30_OnlyVerifiedDriver ==
    /\ HandedBack \subseteq db_ghost.verified
    /\ (db_ghost.verified = {} /\ \A t \in DOMAIN db_threads : db_threads[t].pc = "idle")
          => driver = None_

(* ------------------------------------------------------------------ *)
(* api/users.py: register called from the threads of the server        *)
(* ------------------------------------------------------------------ *)

\* the number of register requests
MaxRegs == 3

Ann == <<"a", "n", "n">>
Bob == <<"b", "o", "b">>

\* the bodies of the requests
RegisterRequests ==
    { [username |-> u, email |-> e, hashed_password |-> <<"p">>] :
        u \in {Ann, Bob}, e \in {<<"1">>, <<"2">>} }

\* bcrypt.hash(password): the hash names the password (the salt is left out)
BcryptHash(password) == <<"$", "2", "b", "$">> \o password

\* a worker thread that handles no request
IdleWorker == [pc |-> "idle", user |-> <<>>, responses |-> <<>>]

\* the requests received so far
Received ==
    LET RECURSIVE Sum(_)
        Sum(t) == IF t = 0 THEN 0
                  ELSE Len(reg_threads[t].responses)
                          + (IF reg_threads[t].pc = "idle" THEN 0 ELSE 1) + Sum(t - 1)
    IN  Sum(Len(reg_threads))

\* `if user.username in USERS: raise HTTPException(status_code=409, ...)`
RegisterCheck(t, user) ==
    /\ reg_threads[t].pc = "idle"
    /\ Received < MaxRegs
    /\ reg_threads' =
          IF user.username \in DOMAIN USERS
          THEN [reg_threads EXCEPT ![t].responses =
                   Append(@, [username |-> user.username, email |-> user.email, status |-> 409])]
          ELSE [reg_threads EXCEPT ![t].pc = "store", ![t].user = user]
    /\ UNCHANGED <<USERS, an_vars, store_vars, db_vars>>

\* hashed = bcrypt.hash(...); USERS[user.username] = db_user; return db_user
RegisterStore(t) ==
    LET user == reg_threads[t].user
        db_user == [ username |-> user.username, email |-> user.email,
                     hashed_password |-> BcryptHash(user.hashed_password) ]
    IN  /\ reg_threads[t].pc = "store"
        /\ USERS' = [k \in DOMAIN USERS \cup {user.username} |->
                        IF k = user.username THEN db_user ELSE USERS[k]]
        /\ reg_threads' = [reg_threads EXCEPT
                              ![t].pc = "idle", ![t].user = <<>>,
                              ![t].responses =
                                  Append(@, [username |-> user.username, email |-> user.email,
                                             status |-> 200])]
        /\ UNCHANGED <<an_vars, store_vars, db_vars>>

UsersInit ==
    /\ AnalyzerIdle
    /\ texts = <<>>
    /\ graph = EmptyGraph
    /\ client = FALSE
    /\ runs = <<>>
    /\ faults = 0
    /\ history = <<>>
    /\ DriverUnused
    /\ USERS = <<>>
    /\ reg_threads = <<IdleWorker, IdleWorker>>

RegisterChecked ==
    \E t \in DOMAIN reg_threads : \E user \in RegisterRequests : RegisterCheck(t, user)
RegisterStored == \E t \in DOMAIN reg_threads : RegisterStore(t)

UsersNext == RegisterChecked \/ RegisterStored

SpecUsers == UsersInit /\ [][UsersNext]_vars

\* the responses with the given status to the requests for a username
Responses(username, status) ==
    UNION { { <<t, k>> : k \in {j \in 1..Len(reg_threads[t].responses) :
                                  /\ reg_threads[t].responses[j].username = username
                                  /\ reg_threads[t].responses[j].status = status} } :
            t \in DOMAIN reg_threads }

\* C29: usernames stay unique under concurrency: for any interleaving of
\* concurrent register requests at most one request per username succeeds,
\* every other request for it gets 409, and the record stored for a username
\* is never overwritten by a later registration.
C29_UsernamesUnique ==
    \A username \in {Ann, Bob} :
        /\ Cardinality(Responses(username, 200)) <= 1
        /\ \A place \in Responses(username, 200) :
              USERS[username].email = reg_threads[place[1]].responses[place[2]].email

====
